---- MODULE Spec2Model ----
(***************************************************************************)
(* Player5 (players/group5): the per-turn decision engine of one helper.   *)
(*                                                                         *)
(* Coordinates are Python floats in the source.  Here a coordinate is an   *)
(* integer number of 1/Unit km (fixed point), and every computation that   *)
(* yields a non-representable real is truncated toward the value it was    *)
(* computed from, so a step never exceeds the real step it stands for.     *)
(* Distances are compared through their exact squares.                     *)
(***************************************************************************)
EXTENDS Integers, Sequences, FiniteSets, TLC

(***************************************************************************)
(* Constants of players/group5/constants.py and of core.constants.         *)
(***************************************************************************)
MAX_MAP_COORD == 999
MIN_MAP_COORD == 0
TARGET_POINT_DISTANCE == 150
NEAR_ARK_DISTANCE == 150
SAFE_RADIUS_FROM_ARK == 1000

\* core.constants (the host's module): values as the specification gives them.
MAX_DISTANCE_KM == 1
MAX_FLOCK_SIZE == 5
START_RAIN == 1000

\* player.py:136, the turn after which a specialized helper reverts to generalist.
SPECIALIZATION_END == 1000

\* The number of turns of the episode window the model follows.
MaxTurns == 3

\* Fixed-point resolution of a float coordinate: tenths of a km.
Unit == 10

Male == "Male"
Female == "Female"
Unknown == "Unknown"
Gender == {Male, Female, Unknown}

\* Python's None for an optional position or cell: the empty tuple.
None == << >>

(***************************************************************************)
(* Arithmetic helpers.                                                     *)
(***************************************************************************)
Abs(a) == IF a < 0 THEN -a ELSE a

Sign(a) == IF a < 0 THEN -1 ELSE IF a > 0 THEN 1 ELSE 0

Min2(a, b) == IF a <= b THEN a ELSE b

Max2(a, b) == IF a >= b THEN a ELSE b

\* int(): truncation toward zero.
TruncDiv(a, b) == IF a >= 0 THEN a \div b ELSE -((-a) \div b)

\* math.ceil(n * pct / 100) for n >= 0 (exact; the float product agrees for n < 400).
CeilPct(n, pct) == (n * pct + 99) \div 100

RECURSIVE SqrtSearch(_, _, _)
\* The least r in lo..hi with r * r >= n.
SqrtSearch(n, lo, hi) ==
    IF lo >= hi THEN lo
    ELSE LET mid == (lo + hi) \div 2
         IN IF mid * mid >= n THEN SqrtSearch(n, lo, mid)
            ELSE SqrtSearch(n, mid + 1, hi)

\* ceil(sqrt(n)) for 0 <= n < 2^30.
CeilSqrt(n) == SqrtSearch(n, 0, 32768)

\* floor(sqrt(n)).
FloorSqrt(n) == LET c == CeilSqrt(n) IN IF c * c = n THEN c ELSE c - 1

\* a * b <= c * d for naturals below 2^30 with a, d <= 2^10, without overflow.
MulLeq(a, b, c, d) ==
    LET K  == 10000
        l1 == a * (b \div K)  l0 == a * (b % K)
        r1 == d * (c \div K)  r0 == d * (c % K)
        lh == l1 + (l0 \div K)  ll == l0 % K
        rh == r1 + (r0 \div K)  rl == r0 % K
    IN  lh < rh \/ (lh = rh /\ ll <= rl)

(***************************************************************************)
(* movement.py: geometry.                                                  *)
(***************************************************************************)
\* get_distance, squared (exact on fixed-point coordinates).
get_distance2(p1, p2) ==
    (p1[1] - p2[1]) * (p1[1] - p2[1]) + (p1[2] - p2[2]) * (p1[2] - p2[2])

\* (r km)^2 in squared fixed-point units.
Km2(r) == (r * Unit) * (r * Unit)

is_within_map_bounds(x, y) ==
    /\ MIN_MAP_COORD * Unit <= x /\ x <= MAX_MAP_COORD * Unit
    /\ MIN_MAP_COORD * Unit <= y /\ y <= MAX_MAP_COORD * Unit

is_within_safe_radius(pos, ark_pos, safe_radius) ==
    get_distance2(pos, ark_pos) <= Km2(safe_radius)

\* floor(|d| * m / sqrt(d2)) for 0 <= m <= Unit * MAX_DISTANCE_KM, |d|^2 <= d2:
\* the largest k in 0..m with k^2 * d2 <= d^2 * m^2.
RECURSIVE StepSearch(_, _, _, _)
StepSearch(d, d2, m, k) ==
    IF k = 0 THEN 0
    ELSE IF MulLeq(k * k, d2, d * d, m * m) THEN k
    ELSE StepSearch(d, d2, m, k - 1)

StepComp(d, d2, m) == Sign(d) * StepSearch(Abs(d), d2, m, m)

(***************************************************************************)
(* core.action: the three actions a helper can return, and None.           *)
(***************************************************************************)
NoAnimal == [sp |-> -1, g |-> Unknown, n |-> 0]

Move(x, y) == [kind |-> "Move", x |-> x, y |-> y, animal |-> NoAnimal]

Obtain(a) == [kind |-> "Obtain", x |-> 0, y |-> 0, animal |-> a]

Release(a) == [kind |-> "Release", x |-> 0, y |-> 0, animal |-> a]

NoAction == [kind |-> "None", x |-> 0, y |-> 0, animal |-> NoAnimal]

(***************************************************************************)
(* movement.py: single steps, return planning, random exploration.         *)
(***************************************************************************)
\* get_move_to_target without the min(dist, MAX_DISTANCE_KM) that bounds the step.
get_move_to_target_unbounded(current_pos, target_pos) ==
    Move(target_pos[1], target_pos[2])

get_move_to_target(current_pos, target_pos) ==
    LET dx == target_pos[1] - current_pos[1]
        dy == target_pos[2] - current_pos[2]
        d2 == get_distance2(current_pos, target_pos)
        m  == MAX_DISTANCE_KM * Unit
    IN  IF d2 = 0 THEN Move(target_pos[1], target_pos[2])        \* dist < EPS
        ELSE IF d2 <= m * m THEN Move(target_pos[1], target_pos[2])  \* move_dist = dist
        ELSE Move(current_pos[1] + StepComp(dx, d2, m),
                  current_pos[2] + StepComp(dy, d2, m))

\* The directions the model knows: multiples of 30 degrees.
Angles == {0, 30, 60, 90, 120, 150, 180, 210, 240, 270, 300, 330}

\* 1000 * cos(deg), deg in Angles.
CosMilli(deg) ==
    CASE deg = 0 -> 1000  [] deg = 30 -> 866   [] deg = 60 -> 500
      [] deg = 90 -> 0    [] deg = 120 -> -500 [] deg = 150 -> -866
      [] deg = 180 -> -1000 [] deg = 210 -> -866 [] deg = 240 -> -500
      [] deg = 270 -> 0   [] deg = 300 -> 500  [] deg = 330 -> 866

SinMilli(deg) == CosMilli((deg + 270) % 360)

\* (cos(deg) * r, sin(deg) * r) for r in fixed-point units, truncated toward 0.
Polar(deg, r) == << TruncDiv(CosMilli(deg) * r, 1000), TruncDiv(SinMilli(deg) * r, 1000) >>

Clamp(v) == Max2(MIN_MAP_COORD * Unit, Min2(MAX_MAP_COORD * Unit, v))

\* get_return_move without its `direct` switch: the spiral is taken whenever the ark
\* is not near.
get_return_move_spiral(current_pos, ark_pos, helper_id, direct) ==
    LET d2 == get_distance2(current_pos, ark_pos)
    IN  IF d2 <= Km2(NEAR_ARK_DISTANCE)
        THEN [move |-> get_move_to_target(current_pos, ark_pos), target |-> ark_pos]
        ELSE LET dx == current_pos[1] - ark_pos[1]
                 dy == current_pos[2] - ark_pos[2]
                 s  == IF helper_id % 2 = 0 THEN 1 ELSE -1
                 rx == TruncDiv(9 * (866 * dx - s * 500 * dy), 10000)
                 ry == TruncDiv(9 * (s * 500 * dx + 866 * dy), 10000)
                 new_target_pos == << Clamp(ark_pos[1] + rx), Clamp(ark_pos[2] + ry) >>
             IN  [move |-> get_move_to_target(current_pos, new_target_pos),
                  target |-> new_target_pos]

\* get_return_move without the clamping of the spiral waypoint to the map.
get_return_move_unclamped(current_pos, ark_pos, helper_id, direct) ==
    LET d2 == get_distance2(current_pos, ark_pos)
    IN  IF direct \/ d2 <= Km2(NEAR_ARK_DISTANCE)
        THEN [move |-> get_move_to_target(current_pos, ark_pos), target |-> ark_pos]
        ELSE LET dx == current_pos[1] - ark_pos[1]
                 dy == current_pos[2] - ark_pos[2]
                 s  == IF helper_id % 2 = 0 THEN 1 ELSE -1
                 rx == TruncDiv(9 * (866 * dx - s * 500 * dy), 10000)
                 ry == TruncDiv(9 * (s * 500 * dx + 866 * dy), 10000)
                 new_target_pos == << ark_pos[1] + rx, ark_pos[2] + ry >>
             IN  [move |-> get_move_to_target(current_pos, new_target_pos),
                  target |-> new_target_pos]

get_return_move(current_pos, ark_pos, helper_id, direct) ==
    LET d2 == get_distance2(current_pos, ark_pos)
    IN  IF direct \/ d2 <= Km2(NEAR_ARK_DISTANCE)
        THEN [move |-> get_move_to_target(current_pos, ark_pos), target |-> ark_pos]
        ELSE LET dx == current_pos[1] - ark_pos[1]
                 dy == current_pos[2] - ark_pos[2]
                 s  == IF helper_id % 2 = 0 THEN 1 ELSE -1     \* arc_offset = +-30 degrees
                 \* 0.9 * dist * (cos, sin)(current_angle + arc_offset)
                 rx == TruncDiv(9 * (866 * dx - s * 500 * dy), 10000)
                 ry == TruncDiv(9 * (s * 500 * dx + 866 * dy), 10000)
                 new_target_pos == << Clamp(ark_pos[1] + rx), Clamp(ark_pos[2] + ry) >>
             IN  [move |-> get_move_to_target(current_pos, new_target_pos),
                  target |-> new_target_pos]

\* movement.py:68, range(150): the retry budget of the random target search.
RANDOM_ATTEMPTS == 150

\* The candidate of one attempt: TARGET_POINT_DISTANCE from current_pos at `angle`.
RandomTargetAt(current_pos, angle) ==
    LET v == Polar(angle, TARGET_POINT_DISTANCE * Unit)
    IN  << current_pos[1] + v[1], current_pos[2] + v[2] >>

\* BACKTRACK_MIN_ANGLE <= angle_diff <= BACKTRACK_MAX_ANGLE, angle_diff = acos(cos) in
\* [0, 180] degrees: cos <= cos(160 deg), i.e. dot < 0 and dot^2 >= 0.883 |p|^2 |n|^2.
InBacktrackBand(pdx, pdy, ndx, ndy) ==
    LET dot == pdx * ndx + pdy * ndy
        mags == (pdx * pdx + pdy * pdy) * (ndx * ndx + ndy * ndy)
    IN  dot < 0 /\ MulLeq(883, mags, dot * dot, 1000)

\* One attempt of the loop: TRUE when the candidate at `angle` is returned.
TargetAccepted(current_pos, previous_position, ark_pos, safe_radius, angle) ==
    LET t   == RandomTargetAt(current_pos, angle)
        pdx == current_pos[1] - previous_position[1]
        pdy == current_pos[2] - previous_position[2]
        ndx == t[1] - current_pos[1]
        ndy == t[2] - current_pos[2]
    IN  /\ is_within_safe_radius(t, ark_pos, safe_radius)
        /\ is_within_map_bounds(t[1], t[2])
        /\ \/ (pdx = 0 /\ pdy = 0) \/ (ndx = 0 /\ ndy = 0)      \* mag < EPS
           \/ ~InBacktrackBand(pdx, pdy, ndx, ndy)

\* The values random() - 0.5 can take, in fixed-point units.
Jitters == {-5, 4}

\* The directions random() * 2 pi is sampled at.
SampledAngles == {0, 60, 120, 180, 240, 300}

\* A draw of the random source: hit with the angle of the first accepted attempt, or
\* no hit when all RANDOM_ATTEMPTS attempts were rejected, and the two jitter values.
Draws ==
    [hit : {TRUE}, angle : SampledAngles, jx : {0}, jy : {0}]
        \cup [hit : {FALSE}, angle : {0}, jx : Jitters, jy : Jitters]

\* The draws the loop can produce from this state.
DrawPossible(current_pos, previous_position, ark_pos, safe_radius, draw) ==
    IF ~draw.hit
    THEN \E a \in SampledAngles :
            ~TargetAccepted(current_pos, previous_position, ark_pos, safe_radius, a)
    ELSE /\ RANDOM_ATTEMPTS >= 1
         /\ TargetAccepted(current_pos, previous_position, ark_pos, safe_radius, draw.angle)

\* get_new_random_target without the nudge that ends an exhausted search with no
\* target to fall back on.
get_new_random_target_no_nudge(current_pos, previous_position, ark_pos, safe_radius, current_target_pos, draw) ==
    IF draw.hit
    THEN LET t == RandomTargetAt(current_pos, draw.angle)
         IN  [move |-> get_move_to_target(current_pos, t), target |-> t]
    ELSE IF current_target_pos # None
    THEN [move |-> get_move_to_target(current_pos, current_target_pos),
          target |-> current_target_pos]
    ELSE [move |-> NoAction, target |-> current_target_pos]

get_new_random_target(current_pos, previous_position, ark_pos, safe_radius, current_target_pos, draw) ==
    IF draw.hit
    THEN LET t == RandomTargetAt(current_pos, draw.angle)
         IN  [move |-> get_move_to_target(current_pos, t), target |-> t]
    ELSE IF current_target_pos # None
    THEN [move |-> get_move_to_target(current_pos, current_target_pos),
          target |-> current_target_pos]
    ELSE [move |-> Move(current_pos[1] + draw.jx, current_pos[2] + draw.jy),
          target |-> current_target_pos]

(***************************************************************************)
(* specialization.py.  species_stats is a dict in insertion order: a       *)
(* sequence of <<name, count>>.  A name is an integer code whose order is  *)
(* the alphabetical order of the names.                                    *)
(***************************************************************************)
Names(species_stats) == {species_stats[i][1] : i \in DOMAIN species_stats}

\* Player5._initialize_species_mapping: the index of the name among the sorted names.
species_to_id(species_stats, name) ==
    Cardinality({m \in Names(species_stats) : m < name})

\* A name that is not a key: species_to_id.get(name) is None.
HasName(species_stats, name) == name \in Names(species_stats)

RECURSIVE InsertByCount(_, _)
\* Insert e = <<name, count>> after every element whose count is <= e's (stable).
InsertByCount(sorted, e) ==
    IF sorted = << >> THEN << e >>
    ELSE IF sorted[Len(sorted)][2] <= e[2] THEN Append(sorted, e)
    ELSE Append(InsertByCount(SubSeq(sorted, 1, Len(sorted) - 1), e), sorted[Len(sorted)])

RECURSIVE SortByCount(_)
\* sorted(items, key=itemgetter(1)): stable, ascending by count.
SortByCount(items) ==
    IF items = << >> THEN << >>
    ELSE InsertByCount(SortByCount(SubSeq(items, 1, Len(items) - 1)), items[Len(items)])

\* [(name, count) for name, count in species_stats.items() if count >= 6]
RareItems(species_stats) == SelectSeq(species_stats, LAMBDA e : e[2] >= 6)

species_list_of(species_stats) == SortByCount(RareItems(species_stats))

RECURSIVE SumCounts(_)
SumCounts(items) ==
    IF items = << >> THEN 0 ELSE items[1][2] + SumCounts(Tail(items))

RECURSIVE TierWalk(_, _, _, _)
\* The inner loop of create_specialization_groups: take species while the
\* cumulative population is below total * pct / 100.
TierWalk(species_list, total, pct, cum) ==
    IF species_list = << >> THEN << >>
    ELSE IF cum * 100 < total * pct
         THEN << species_list[1][1] >>
                  \o TierWalk(Tail(species_list), total, pct, cum + species_list[1][2])
         ELSE << >>

specialization_limits == << 1000, 2000, 3000, 4000 >>

population_percentages == << 30, 15, 8, 3 >>

group_percentages == << 30, 30, 25, 15 >>

\* specializations_map: limit -> names.
create_specialization_groups(species_list, total_population) ==
    [limit \in {specialization_limits[i] : i \in 1..4} |->
        LET i == CHOOSE j \in 1..4 : specialization_limits[j] = limit
        IN  TierWalk(species_list, total_population, population_percentages[i], 0)]

RECURSIVE GroupSizes(_, _, _)
\* group_sizes of determine_helper_group, from group i on.
GroupSizes(n, i, cumulative) ==
    IF i > 4 THEN << >>
    ELSE LET size == IF i = 4 THEN Max2(0, n - cumulative)
                     ELSE CeilPct(n, group_percentages[i])
         IN  << size >> \o GroupSizes(n, i + 1, cumulative + size)

group_sizes_of(num_helpers) == GroupSizes(num_helpers - 2, 1, 0)

RECURSIVE FindGroup(_, _, _, _)
\* The second loop of determine_helper_group; 0 stands for None.
FindGroup(group_sizes, group_id, i, cumulative_helper_count) ==
    IF i > Len(group_sizes) THEN 0
    ELSE IF cumulative_helper_count + 1 <= group_id
            /\ group_id <= cumulative_helper_count + group_sizes[i]
         THEN specialization_limits[i]
         ELSE FindGroup(group_sizes, group_id, i + 1,
                        cumulative_helper_count + group_sizes[i])

determine_helper_group(helper_id, num_helpers) ==
    FindGroup(group_sizes_of(num_helpers), helper_id - 2, 1, 0)

Generalist == [is_specialized |-> FALSE, limit |-> 0, targets |-> << >>]

\* assign_specialization without the guard for helpers 1 and 2, counting the
\* specialized ordinals from the first helper.
assign_specialization_all(helper_id, num_helpers, species_stats) ==
    LET species_list == species_list_of(species_stats)
        total_population == SumCounts(species_list)
    IN  IF total_population = 0 THEN Generalist
        ELSE LET specializations_map ==
                     create_specialization_groups(species_list, total_population)
                 assigned_limit == determine_helper_group(helper_id + 2, num_helpers + 2)
             IN  IF assigned_limit # 0 /\ assigned_limit \in DOMAIN specializations_map
                 THEN [is_specialized |-> TRUE, limit |-> assigned_limit,
                       targets |-> specializations_map[assigned_limit]]
                 ELSE Generalist

assign_specialization(helper_id, num_helpers, species_stats) ==
    IF helper_id \in {1, 2} THEN Generalist
    ELSE LET species_list == species_list_of(species_stats)
             total_population == SumCounts(species_list)
         IN  IF total_population = 0 THEN Generalist
             ELSE LET specializations_map ==
                          create_specialization_groups(species_list, total_population)
                      assigned_limit == determine_helper_group(helper_id, num_helpers)
                  IN  IF assigned_limit # 0 /\ assigned_limit \in DOMAIN specializations_map
                      THEN [is_specialized |-> TRUE, limit |-> assigned_limit,
                            targets |-> specializations_map[assigned_limit]]
                      ELSE Generalist

RECURSIVE SortPairs(_)
\* sorted() of a set of distinct <<count, species_id>> tuples.
SortPairs(S) ==
    IF S = {} THEN << >>
    ELSE LET m == CHOOSE e \in S :
                     \A f \in S : e[1] < f[1] \/ (e[1] = f[1] /\ e[2] <= f[2])
         IN  << m >> \o SortPairs(S \ {m})

InSeq(x, seq) == \E i \in DOMAIN seq : seq[i] = x

RECURSIVE GeneralistWalk(_, _, _)
\* The generalist loop of update_to_search_list over species_info.
GeneralistWalk(species_info, obtained_species, final_search_list) ==
    IF species_info = << >> \/ Len(final_search_list) >= 6 THEN final_search_list
    ELSE LET species_id == species_info[1][2]
             l1 == IF << species_id, Male >> \notin obtained_species
                      /\ ~InSeq(<< species_id, Male >>, final_search_list)
                   THEN Append(final_search_list, << species_id, Male >>)
                   ELSE final_search_list
             l2 == IF << species_id, Female >> \notin obtained_species
                      /\ ~InSeq(<< species_id, Male >>, l1)
                   THEN Append(l1, << species_id, Female >>)
                   ELSE l1
         IN  GeneralistWalk(Tail(species_info), obtained_species, l2)

\* Both genders of the species named `name` are in obtained_species.
Complete(species_stats, obtained_species, name) ==
    LET species_id == species_to_id(species_stats, name)
    IN  << species_id, Male >> \in obtained_species
            /\ << species_id, Female >> \in obtained_species

\* The reassignment loop taking the rarest species whether or not it is complete.
NextRarest_rarest_overall(species_list, species_stats, obtained_species) ==
    IF species_list = << >> THEN << >> ELSE << species_list[1][1] >>

RECURSIVE NextRarest(_, _, _)
\* The reassignment loop: the first species of species_list lacking a gender, as a
\* one-element list; << >> when every species is complete.
NextRarest(species_list, species_stats, obtained_species) ==
    IF species_list = << >> THEN << >>
    ELSE IF ~Complete(species_stats, obtained_species, species_list[1][1])
         THEN << species_list[1][1] >>
         ELSE NextRarest(Tail(species_list), species_stats, obtained_species)

RECURSIVE BuildSearch(_, _, _)
\* The search list of the assigned species: their missing genders, Male first.
BuildSearch(names, species_stats, obtained_species) ==
    IF names = << >> THEN << >>
    ELSE LET species_id == species_to_id(species_stats, names[1])
             m == IF << species_id, Male >> \notin obtained_species
                  THEN << << species_id, Male >> >> ELSE << >>
             f == IF << species_id, Female >> \notin obtained_species
                  THEN << << species_id, Female >> >> ELSE << >>
         IN  (IF HasName(species_stats, names[1]) THEN m \o f ELSE << >>)
                 \o BuildSearch(Tail(names), species_stats, obtained_species)

\* update_to_search_list taking the outcome of the reassignment loop even when the
\* loop found no species still to collect.
update_to_search_list_reassign_to_none(is_specialized, specialization_target_species, species_stats, obtained_species, helper_id) ==
    IF ~is_specialized \/ helper_id <= 2
    THEN LET species_info ==
                 SortPairs({<< species_stats[i][2],
                               species_to_id(species_stats, species_stats[i][1]) >> :
                            i \in DOMAIN species_stats})
         IN  [search |-> GeneralistWalk(species_info, obtained_species, << >>),
              targets |-> specialization_target_species]
    ELSE LET current_species_complete ==
                 \A i \in DOMAIN specialization_target_species :
                    HasName(species_stats, specialization_target_species[i])
                        => Complete(species_stats, obtained_species,
                                    specialization_target_species[i])
             next == NextRarest(species_list_of(species_stats), species_stats,
                                obtained_species)
             new_target_species ==
                 IF current_species_complete THEN next
                 ELSE specialization_target_species
         IN  [search |-> BuildSearch(new_target_species, species_stats, obtained_species),
              targets |-> new_target_species]

update_to_search_list(is_specialized, specialization_target_species, species_stats, obtained_species, helper_id) ==
    IF ~is_specialized \/ helper_id <= 2
    THEN LET species_info ==
                 SortPairs({<< species_stats[i][2],
                               species_to_id(species_stats, species_stats[i][1]) >> :
                            i \in DOMAIN species_stats})
         IN  [search |-> GeneralistWalk(species_info, obtained_species, << >>),
              targets |-> specialization_target_species]
    ELSE LET current_species_complete ==
                 \A i \in DOMAIN specialization_target_species :
                    HasName(species_stats, specialization_target_species[i])
                        => Complete(species_stats, obtained_species,
                                    specialization_target_species[i])
             next == NextRarest(species_list_of(species_stats), species_stats,
                                obtained_species)
             new_target_species ==
                 IF current_species_complete /\ next # << >> THEN next
                 ELSE specialization_target_species
         IN  [search |-> BuildSearch(new_target_species, species_stats, obtained_species),
              targets |-> new_target_species]

\* is_species_needed taking an Unknown gender as needed only when both genders are
\* absent.
is_species_needed_both_absent(species_id, gender, ignore_list, is_specialized, to_search_list, obtained_species) ==
    IF InSeq(species_id, ignore_list) THEN FALSE
    ELSE LET is_needed ==
                 IF gender = Unknown
                 THEN << species_id, Male >> \notin obtained_species
                          /\ << species_id, Female >> \notin obtained_species
                 ELSE << species_id, gender >> \notin obtained_species
         IN  IF ~is_needed THEN FALSE
             ELSE IF is_specialized /\ to_search_list # << >>
             THEN IF gender # Unknown
                  THEN InSeq(<< species_id, gender >>, to_search_list)
                  ELSE \E i \in DOMAIN to_search_list : to_search_list[i][1] = species_id
             ELSE TRUE

is_species_needed(species_id, gender, ignore_list, is_specialized, to_search_list, obtained_species) ==
    IF InSeq(species_id, ignore_list) THEN FALSE
    ELSE LET is_needed ==
                 IF gender = Unknown
                 THEN ~(<< species_id, Male >> \in obtained_species
                          /\ << species_id, Female >> \in obtained_species)
                 ELSE << species_id, gender >> \notin obtained_species
         IN  IF ~is_needed THEN FALSE
             ELSE IF is_specialized /\ to_search_list # << >>
             THEN IF gender # Unknown
                  THEN InSeq(<< species_id, gender >>, to_search_list)
                  ELSE \E i \in DOMAIN to_search_list : to_search_list[i][1] = species_id
             ELSE TRUE

(***************************************************************************)
(* targeting.py.  A cell view is [x, y, animals, helpers]; sight is the      *)
(* sequence of cell views in iteration order.  An animal is [sp, g, n]:    *)
(* species id, gender as shown, and n to tell individuals apart.           *)
(***************************************************************************)
\* int(position[0]), int(position[1])
CellOf(position) == << TruncDiv(position[1], Unit), TruncDiv(position[2], Unit) >>

\* (cell.x + 0.5, cell.y + 0.5)
CellCenter(cx, cy) == << cx * Unit + Unit \div 2, cy * Unit + Unit \div 2 >>

\* is_valid_target_cell without the check for other helpers in the cell.
is_valid_target_cell_shared(cell_view, position, ark_pos, safe_radius) ==
    IF CellOf(position) = << cell_view.x, cell_view.y >> THEN FALSE
    ELSE is_within_safe_radius(CellCenter(cell_view.x, cell_view.y), ark_pos, safe_radius)

is_valid_target_cell(cell_view, position, ark_pos, safe_radius) ==
    IF CellOf(position) = << cell_view.x, cell_view.y >> THEN FALSE
    ELSE IF cell_view.helpers # {} THEN FALSE
    ELSE is_within_safe_radius(CellCenter(cell_view.x, cell_view.y), ark_pos, safe_radius)

\* The index in sight of the first valid cell holding an animal of a species in
\* `wanted`; 0 when there is none.
FirstCell(sight, position, ark_pos, safe_radius, wanted) ==
    LET hits == {i \in DOMAIN sight :
                    /\ is_valid_target_cell(sight[i], position, ark_pos, safe_radius)
                    /\ \E a \in sight[i].animals : a.sp \in wanted}
    IN  IF hits = {} THEN 0 ELSE CHOOSE i \in hits : \A j \in hits : i <= j

\* The species in sight for which is_species_needed_func(species_id, Gender.Unknown)
\* holds.
NeededInSight(sight, ignore_list, is_specialized, to_search_list, obtained_species) ==
    {sp \in UNION {{a.sp : a \in sight[i].animals} : i \in DOMAIN sight} :
        is_species_needed(sp, Unknown, ignore_list, is_specialized, to_search_list,
                          obtained_species)}

find_cell_with_species(sight, species_id, ignore_list, is_specialized, to_search_list, obtained_species, position, ark_pos, safe_radius) ==
    FirstCell(sight, position, ark_pos, safe_radius,
              {species_id} \cap NeededInSight(sight, ignore_list, is_specialized,
                                              to_search_list, obtained_species))

find_cell_with_needed_animal(sight, ignore_list, is_specialized, to_search_list, obtained_species, position, ark_pos, safe_radius) ==
    FirstCell(sight, position, ark_pos, safe_radius,
              NeededInSight(sight, ignore_list, is_specialized, to_search_list,
                            obtained_species))

\* find_needed_animal_in_sight without the search for the priority species.
find_needed_animal_in_sight_any_first(sight, is_specialized, to_search_list, ignore_list, obtained_species, position, ark_pos, safe_radius) ==
    find_cell_with_needed_animal(sight, ignore_list, is_specialized, to_search_list,
                                 obtained_species, position, ark_pos, safe_radius)

\* The index in sight of the cell returned; 0 for None.
find_needed_animal_in_sight(sight, is_specialized, to_search_list, ignore_list, obtained_species, position, ark_pos, safe_radius) ==
    LET wanted == {i \in DOMAIN to_search_list :
                      is_species_needed(to_search_list[i][1], Unknown, ignore_list,
                                        is_specialized, to_search_list, obtained_species)}
        first == IF wanted = {} THEN 0 ELSE CHOOSE i \in wanted : \A j \in wanted : i <= j
        target_cell ==
            IF is_specialized /\ to_search_list # << >> /\ first # 0
            THEN find_cell_with_species(sight, to_search_list[first][1], ignore_list,
                                        is_specialized, to_search_list, obtained_species,
                                        position, ark_pos, safe_radius)
            ELSE 0
    IN  IF target_cell # 0 THEN target_cell
        ELSE find_cell_with_needed_animal(sight, ignore_list, is_specialized,
                                          to_search_list, obtained_species,
                                          position, ark_pos, safe_radius)

(***************************************************************************)
(* State: the fields of one Player5 object, the host's clock and ark, and  *)
(* the action last returned.                                               *)
(***************************************************************************)
VARIABLES
    id, kind, num_helpers, species_stats, ark_pos,     \* construction parameters
    position, sight, flock, at_ark,                    \* refreshed from each snapshot
    is_raining, rain_start_time, time_elapsed,
    obtained_species, ignore_list,
    animal_target_cell, current_target_pos, previous_position,
    base_angle, is_exploring_fan_out,
    is_specialized, specialization_limit, specialization_target_species,
    to_search_list,
    action, rung,          \* what get_action returned last, and the rung that returned it
    now, ark_animals,      \* host: the turn of the next snapshot, the ark's inventory
    world, rain_at,        \* host: the cells in the helper's sight, the turn the rain starts
    came_from,             \* host: where the helper stood in the snapshot before this one
    walked,                \* host: the order the current cell's animals were last iterated in
    phase, turn,           \* whose step it is, and the turns taken in this window
    probe                  \* the last pure-function application (function specifications)

params == << id, kind, num_helpers, species_stats, ark_pos >>

fields == << position, sight, flock, at_ark, is_raining, rain_start_time, time_elapsed,
             obtained_species, ignore_list, animal_target_cell, current_target_pos,
             previous_position, base_angle, is_exploring_fan_out, is_specialized,
             specialization_limit, specialization_target_species, to_search_list >>

host == << now, ark_animals, world, rain_at, came_from, walked >>

vars == << params, fields, action, rung, host, phase, turn, probe >>

Noah == "Noah"
Helper == "Helper"

A(sp, g, n) == [sp |-> sp, g |-> g, n |-> n]

Key(a) == << a.sp, a.g >>

\* The keys of the Male animals of a set only.
KnownKeys_males(animals) == {Key(a) : a \in {b \in animals : b.g = Male}}

\* The (species, gender) keys of the known-gender animals of a set.
KnownKeys(animals) == {Key(a) : a \in {b \in animals : b.g # Unknown}}

(***************************************************************************)
(* Player5 methods.  Each reads the fields as the method reads self.       *)
(***************************************************************************)
\* Player.is_in_ark (core.player): the helper stands in the ark's cell.
is_in_ark == CellOf(position) = CellOf(ark_pos)

\* _get_turns_remaining_until_end counting from turn 0 instead of the rain's start.
turns_remaining_until_end_from_zero == START_RAIN - time_elapsed

\* _get_turns_remaining_until_end when it is not None.  rain_start_time is None or
\* the one-element tuple of the turn the rain started.
turns_remaining_until_end == START_RAIN - (time_elapsed - rain_start_time[1])

\* None from _get_turns_remaining_until_end.
NoDeadline == ~is_raining \/ rain_start_time = None

\* _get_turns_to_reach_ark: ceil(distance / MAX_DISTANCE_KM).
turns_to_reach_ark ==
    LET d2 == get_distance2(position, ark_pos)
        per == MAX_DISTANCE_KM * Unit
    IN  (CeilSqrt(d2) + per - 1) \div per

time_buffer == turns_remaining_until_end - turns_to_reach_ark

\* The animals of the flock whose key occurs more than once: any of them can be the
\* first one next() meets in the flock's iteration order.
FlockDuplicates ==
    {a \in flock : Cardinality({b \in flock : Key(b) = Key(a)}) > 1}

\* sight.get_cellview_at(x, y): the index of the current cell's view, 0 when the
\* lookup yields nothing.
CurrentCellIndex ==
    LET here == {i \in DOMAIN sight : << sight[i].x, sight[i].y >> = CellOf(position)}
    IN  IF here = {} THEN 0 ELSE CHOOSE i \in here : \A j \in here : i <= j

RECURSIVE ObtainWalk_always_append(_, _)
\* The loop of _try_obtain_in_current_cell, appending to the ignore list without
\* looking whether the species is on it.
ObtainWalk_always_append(order, ignore) ==
    IF order = << >> THEN [animal |-> NoAnimal, ignore_list |-> ignore]
    ELSE LET animal == order[1]
         IN  IF animal \in flock THEN ObtainWalk_always_append(Tail(order), ignore)
             ELSE IF animal.g # Unknown /\ Key(animal) \in obtained_species
             THEN ObtainWalk_always_append(Tail(order), Append(ignore, animal.sp))
             ELSE IF is_species_needed(animal.sp, animal.g, ignore, is_specialized,
                                       to_search_list, obtained_species)
             THEN [animal |-> animal, ignore_list |-> ignore]
             ELSE ObtainWalk_always_append(Tail(order), ignore)

RECURSIVE ObtainWalk_retakes_flock(_, _)
\* The loop of _try_obtain_in_current_cell without the test that passes over the
\* animals already in the flock.
ObtainWalk_retakes_flock(order, ignore) ==
    IF order = << >> THEN [animal |-> NoAnimal, ignore_list |-> ignore]
    ELSE LET animal == order[1]
         IN  IF animal.g # Unknown /\ Key(animal) \in obtained_species
             THEN ObtainWalk_retakes_flock(Tail(order),
                             IF InSeq(animal.sp, ignore) THEN ignore
                             ELSE Append(ignore, animal.sp))
             ELSE IF is_species_needed(animal.sp, animal.g, ignore, is_specialized,
                                       to_search_list, obtained_species)
             THEN [animal |-> animal, ignore_list |-> ignore]
             ELSE ObtainWalk_retakes_flock(Tail(order), ignore)

RECURSIVE ObtainWalk(_, _)
\* The loop of _try_obtain_in_current_cell over the cell's animals in iteration
\* order, carrying the ignore list: [animal, ignore_list], animal = NoAnimal for None.
ObtainWalk(order, ignore) ==
    IF order = << >> THEN [animal |-> NoAnimal, ignore_list |-> ignore]
    ELSE LET animal == order[1]
         IN  IF animal \in flock THEN ObtainWalk(Tail(order), ignore)
             ELSE IF animal.g # Unknown /\ Key(animal) \in obtained_species
             THEN ObtainWalk(Tail(order),
                             IF InSeq(animal.sp, ignore) THEN ignore
                             ELSE Append(ignore, animal.sp))
             ELSE IF is_species_needed(animal.sp, animal.g, ignore, is_specialized,
                                       to_search_list, obtained_species)
             THEN [animal |-> animal, ignore_list |-> ignore]
             ELSE ObtainWalk(Tail(order), ignore)

\* _try_obtain_in_current_cell: [animal, ignore_list, clears], clears = the cached
\* chase cell is set to None.
try_obtain_in_current_cell(order, ignore) ==
    IF CurrentCellIndex = 0 \/ order = << >>
    THEN [animal |-> NoAnimal, ignore_list |-> ignore, clears |-> FALSE]
    ELSE LET w == ObtainWalk(order, ignore)
         IN  [animal |-> w.animal, ignore_list |-> w.ignore_list, clears |-> TRUE]

\* The orders in which the animals of a set can be iterated.
RECURSIVE Orders(_)
Orders(S) ==
    IF S = {} THEN { << >> }
    ELSE UNION {{<< a >> \o o : o \in Orders(S \ {a})} : a \in S}

CurrentCellAnimals == IF CurrentCellIndex = 0 THEN {} ELSE sight[CurrentCellIndex].animals

\* What one get_action call yields: the action, the rung of the ladder that returned
\* it, and the fields get_action writes.
Outcome(act, rg, cell, target, ignore, fan_out) ==
    [action |-> act, rung |-> rg, animal_target_cell |-> cell,
     current_target_pos |-> target, ignore_list |-> ignore,
     is_exploring_fan_out |-> fan_out]

\* get_action without the periodic reset of the ignore list.
MaintainedIgnoreList_never == ignore_list

\* get_action lines 174-175: the periodic reset of the ignore list.
MaintainedIgnoreList ==
    IF time_elapsed > 0 /\ time_elapsed % 250 = 0 THEN << >> ELSE ignore_list

\* _handle_animal_chase stepping toward the cell and forgetting it.
handle_animal_chase_forgets(cell, ignore) ==
    IF ~is_within_safe_radius(CellCenter(cell[1], cell[2]), ark_pos, SAFE_RADIUS_FROM_ARK)
    THEN LET r == get_return_move(position, ark_pos, id, FALSE)
         IN  Outcome(r.move, "chase_abandon", None, r.target, ignore, is_exploring_fan_out)
    ELSE Outcome(get_move_to_target(position, CellCenter(cell[1], cell[2])), "chase",
                 None, current_target_pos, ignore, is_exploring_fan_out)

\* _handle_animal_chase for the cached cell `cell`.
handle_animal_chase(cell, ignore) ==
    IF ~is_within_safe_radius(CellCenter(cell[1], cell[2]), ark_pos, SAFE_RADIUS_FROM_ARK)
    THEN LET r == get_return_move(position, ark_pos, id, FALSE)
         IN  Outcome(r.move, "chase_abandon", None, r.target, ignore, is_exploring_fan_out)
    ELSE Outcome(get_move_to_target(position, CellCenter(cell[1], cell[2])), "chase",
                 cell, current_target_pos, ignore, is_exploring_fan_out)

\* _handle_rain_urgency comparing the turns remaining alone, the trip to the ark
\* left out.
RainUrgent_no_trip == ~NoDeadline /\ turns_remaining_until_end < 3

\* _handle_rain_urgency waiting until no turn is left to spare.
RainUrgent_at_deadline == ~NoDeadline /\ time_buffer < 0

\* _handle_rain_urgency: TRUE when it returns the forced direct return.
RainUrgent == ~NoDeadline /\ time_buffer < 3

\* _handle_rain_movement with the cached cell `cell`; rung "none" stands for None.
handle_rain_movement(cell, ignore) ==
    LET d2     == get_distance2(position, ark_pos)
        direct == get_return_move(position, ark_pos, id, TRUE)
        spiral == get_return_move(position, ark_pos, id, FALSE)
        nothing == Outcome(NoAction, "none", cell, current_target_pos, ignore,
                           is_exploring_fan_out)
    IN  IF NoDeadline THEN nothing
        ELSE IF d2 < Km2(200) /\ time_buffer > 200
        THEN IF Cardinality(flock) >= 3
             THEN Outcome(direct.move, "rain_close", cell, direct.target, ignore,
                          is_exploring_fan_out)
             ELSE nothing
        ELSE IF d2 < Km2(500) /\ time_buffer > 100
        THEN IF cell # None /\ Cardinality(flock) < MAX_FLOCK_SIZE
             THEN IF get_distance2(position, CellCenter(cell[1], cell[2])) >= Km2(15)
                  THEN Outcome(spiral.move, "rain_medium_abandon", None, spiral.target,
                               ignore, is_exploring_fan_out)
                  ELSE nothing
             ELSE Outcome(spiral.move, "rain_medium", cell, spiral.target, ignore,
                          is_exploring_fan_out)
        ELSE Outcome(direct.move, "rain_far", cell, direct.target, ignore,
                     is_exploring_fan_out)

\* _handle_fan_out_exploration.
handle_fan_out_exploration(cell, ignore, draw) ==
    LET v     == Polar(base_angle % 360, MAX_DISTANCE_KM * Unit)
        new_x == position[1] + v[1]
        new_y == position[2] + v[2]
    IN  IF ~is_within_map_bounds(new_x, new_y)
           \/ ~is_within_safe_radius(<< new_x, new_y >>, ark_pos, SAFE_RADIUS_FROM_ARK)
        THEN LET r == get_new_random_target(position, previous_position, ark_pos,
                                            SAFE_RADIUS_FROM_ARK, current_target_pos, draw)
             IN  Outcome(r.move, IF draw.hit THEN "fan_out_switch" ELSE "fan_out_exhausted",
                         cell, r.target, ignore, FALSE)
        ELSE Outcome(Move(new_x, new_y), "fan_out", cell, << new_x, new_y >>, ignore,
                     is_exploring_fan_out)

\* _handle_exploration.
handle_exploration(cell, ignore, draw) ==
    IF \/ is_in_ark
       \/ current_target_pos = None
       \/ get_distance2(position, current_target_pos) < Km2(MAX_DISTANCE_KM)
    THEN IF is_exploring_fan_out THEN handle_fan_out_exploration(cell, ignore, draw)
         ELSE LET r == get_new_random_target(position, previous_position, ark_pos,
                                             SAFE_RADIUS_FROM_ARK, current_target_pos, draw)
              IN  Outcome(r.move, IF draw.hit THEN "random" ELSE "random_exhausted",
                          cell, r.target, ignore, is_exploring_fan_out)
    ELSE IF ~is_within_safe_radius(current_target_pos, ark_pos, SAFE_RADIUS_FROM_ARK)
    THEN LET r == get_return_move(position, ark_pos, id, FALSE)
         IN  Outcome(r.move, "resume_unsafe", cell, r.target, ignore, is_exploring_fan_out)
    ELSE Outcome(get_move_to_target(position, current_target_pos), "resume", cell,
                 current_target_pos, ignore, is_exploring_fan_out)

\* get_action lines 229-264, after no capture was made and no chase cell is cached.
AcquireOrRoam(ignore, draw) ==
    LET idx == IF Cardinality(flock) < MAX_FLOCK_SIZE
               THEN find_needed_animal_in_sight(sight, is_specialized, to_search_list,
                        ignore, obtained_species, position, ark_pos, SAFE_RADIUS_FROM_ARK)
               ELSE 0
        center == CellCenter(sight[idx].x, sight[idx].y)
        rain == handle_rain_movement(None, ignore)
    IN  IF idx # 0 /\ is_within_safe_radius(center, ark_pos, SAFE_RADIUS_FROM_ARK)
        THEN Outcome(get_move_to_target(position, center), "acquire",
                     << sight[idx].x, sight[idx].y >>, current_target_pos, ignore,
                     is_exploring_fan_out)
        ELSE IF is_raining /\ rain.rung # "none" THEN rain
        ELSE IF Cardinality(flock) >= 3
        THEN LET r == get_return_move(position, ark_pos, id, FALSE)
             IN  Outcome(r.move, "loaded", None, r.target, ignore, is_exploring_fan_out)
        ELSE handle_exploration(None, ignore, draw)

\* Lines 206-227 with the capacity test off by one.
ReleaseOrCollect_over_capacity(ignore, dup, order, draw) ==
    IF FlockDuplicates # {}
    THEN Outcome(Release(dup), "release", None, current_target_pos,
                 Append(ignore, dup.sp), is_exploring_fan_out)
    ELSE IF Cardinality(flock) > MAX_FLOCK_SIZE
    THEN LET r == get_return_move(position, ark_pos, id, TRUE)
         IN  Outcome(r.move, "full", animal_target_cell, r.target, ignore,
                     is_exploring_fan_out)
    ELSE LET t    == try_obtain_in_current_cell(order, ignore)
             cell == IF t.clears THEN None ELSE animal_target_cell
         IN  IF t.animal # NoAnimal
             THEN Outcome(Obtain(t.animal), "obtain", None, current_target_pos,
                          t.ignore_list, is_exploring_fan_out)
             ELSE IF cell # None THEN handle_animal_chase(cell, t.ignore_list)
             ELSE AcquireOrRoam(t.ignore_list, draw)

\* Lines 206-227 with the capture tried before the capacity test.
ReleaseOrCollect_capture_before_full(ignore, dup, order, draw) ==
    IF FlockDuplicates # {}
    THEN Outcome(Release(dup), "release", None, current_target_pos,
                 Append(ignore, dup.sp), is_exploring_fan_out)
    ELSE LET t    == try_obtain_in_current_cell(order, ignore)
             cell == IF t.clears THEN None ELSE animal_target_cell
         IN  IF t.animal # NoAnimal
             THEN Outcome(Obtain(t.animal), "obtain", None, current_target_pos,
                          t.ignore_list, is_exploring_fan_out)
             ELSE IF Cardinality(flock) >= MAX_FLOCK_SIZE
             THEN LET r == get_return_move(position, ark_pos, id, TRUE)
                  IN  Outcome(r.move, "full", cell, r.target, t.ignore_list,
                              is_exploring_fan_out)
             ELSE IF cell # None THEN handle_animal_chase(cell, t.ignore_list)
             ELSE AcquireOrRoam(t.ignore_list, draw)

\* Lines 206-227 with the capture tried before the duplicate release.
ReleaseOrCollect_capture_before_release(ignore, dup, order, draw) ==
    LET t    == try_obtain_in_current_cell(order, ignore)
        cell == IF t.clears THEN None ELSE animal_target_cell
    IN  IF t.animal # NoAnimal /\ Cardinality(flock) < MAX_FLOCK_SIZE
        THEN Outcome(Obtain(t.animal), "obtain", None, current_target_pos,
                     t.ignore_list, is_exploring_fan_out)
        ELSE IF FlockDuplicates # {}
        THEN Outcome(Release(dup), "release", None, current_target_pos,
                     Append(ignore, dup.sp), is_exploring_fan_out)
        ELSE IF Cardinality(flock) >= MAX_FLOCK_SIZE
        THEN LET r == get_return_move(position, ark_pos, id, TRUE)
             IN  Outcome(r.move, "full", animal_target_cell, r.target, ignore,
                         is_exploring_fan_out)
        ELSE IF cell # None THEN handle_animal_chase(cell, t.ignore_list)
        ELSE AcquireOrRoam(t.ignore_list, draw)

\* get_action lines 206-227: release, full flock, capture, chase.
ReleaseOrCollect(ignore, dup, order, draw) ==
    IF FlockDuplicates # {}
    THEN Outcome(Release(dup), "release", None, current_target_pos,
                 Append(ignore, dup.sp), is_exploring_fan_out)
    ELSE IF Cardinality(flock) >= MAX_FLOCK_SIZE
    THEN LET r == get_return_move(position, ark_pos, id, TRUE)
         IN  Outcome(r.move, "full", animal_target_cell, r.target, ignore,
                     is_exploring_fan_out)
    ELSE LET t    == try_obtain_in_current_cell(order, ignore)
             cell == IF t.clears THEN None ELSE animal_target_cell
         IN  IF t.animal # NoAnimal
             THEN Outcome(Obtain(t.animal), "obtain", None, current_target_pos,
                          t.ignore_list, is_exploring_fan_out)
             ELSE IF cell # None THEN handle_animal_chase(cell, t.ignore_list)
             ELSE AcquireOrRoam(t.ignore_list, draw)

\* get_action releasing a duplicate before the rain urgency is looked at.
get_action_release_before_urgency(dup, order, draw) ==
    LET ignore == MaintainedIgnoreList
    IN  IF kind = Noah
        THEN Outcome(NoAction, "noah", animal_target_cell, current_target_pos, ignore,
                     is_exploring_fan_out)
        ELSE IF ~is_within_safe_radius(position, ark_pos, SAFE_RADIUS_FROM_ARK)
        THEN LET r == get_return_move(position, ark_pos, id, TRUE)
             IN  Outcome(r.move, "emergency", None, r.target, ignore, is_exploring_fan_out)
        ELSE IF FlockDuplicates # {}
        THEN Outcome(Release(dup), "release", None, current_target_pos,
                     Append(ignore, dup.sp), is_exploring_fan_out)
        ELSE IF is_raining /\ RainUrgent
        THEN LET r == get_return_move(position, ark_pos, id, TRUE)
             IN  Outcome(r.move, "urgency", animal_target_cell, r.target, ignore,
                         is_exploring_fan_out)
        ELSE ReleaseOrCollect(ignore, dup, order, draw)

\* Player5.get_action.  dup: the duplicate next() meets first; order: the iteration
\* order of the current cell's animals; draw: what the random source yields.
get_action(dup, order, draw) ==
    LET ignore == MaintainedIgnoreList
    IN  IF kind = Noah
        THEN Outcome(NoAction, "noah", animal_target_cell, current_target_pos, ignore,
                     is_exploring_fan_out)
        ELSE IF ~is_within_safe_radius(position, ark_pos, SAFE_RADIUS_FROM_ARK)
        THEN LET r == get_return_move(position, ark_pos, id, TRUE)
             IN  Outcome(r.move, "emergency", None, r.target, ignore, is_exploring_fan_out)
        ELSE IF is_raining /\ RainUrgent
        THEN LET r == get_return_move(position, ark_pos, id, TRUE)
             IN  Outcome(r.move, "urgency", animal_target_cell, r.target, ignore,
                         is_exploring_fan_out)
        ELSE ReleaseOrCollect(ignore, dup, order, draw)

(***************************************************************************)
(* targeting.update_obtained_species_from_ark.  rnd: random() radians, as  *)
(* degrees.                                                                *)
(***************************************************************************)
\* update_obtained_species_from_ark restarting the fan-out at every sight of the ark.
update_obtained_species_from_ark_restarts(ark_view_animals, obtained, angle, rnd) ==
    LET ark_set == KnownKeys(ark_view_animals)
    IN  [obtained |-> obtained \cup ark_set,
         fan_out  |-> TRUE,
         angle    |-> IF ark_set # {} THEN (angle + rnd) % 360 ELSE angle]

update_obtained_species_from_ark(ark_view_animals, obtained, angle, rnd) ==
    LET ark_set == KnownKeys(ark_view_animals)
    IN  [obtained |-> obtained \cup ark_set,
         fan_out  |-> ark_set # {},
         angle    |-> IF ark_set # {} THEN (angle + rnd) % 360 ELSE angle]

\* The values random() radians can take, in degrees of the sampled directions.
RandomTurns == {0, 30}

(***************************************************************************)
(* The host (core engine, outside this package): it applies the action     *)
(* returned last and hands the helper the next snapshot.                   *)
(***************************************************************************)
MoveLegal(act) ==
    /\ is_within_map_bounds(act.x, act.y)
    /\ get_distance2(position, << act.x, act.y >>) <= Km2(MAX_DISTANCE_KM)

HostPosition ==
    IF action.kind = "Move" /\ MoveLegal(action) THEN << action.x, action.y >>
    ELSE position

HostFlock ==
    IF action.kind = "Obtain" THEN flock \cup {action.animal}
    ELSE IF action.kind = "Release" THEN flock \ {action.animal}
    ELSE flock

\* A scene is what the helper sees around its cell: cell views at offsets from it.
CellAt(dx, dy, animals, helpers) ==
    [dx |-> dx, dy |-> dy, animals |-> animals, helpers |-> helpers]

Scenes ==
    { << >>,
      << CellAt(0, 0, {}, {}) >>,
      << CellAt(0, 0, {A(0, Male, 1), A(1, Unknown, 1)}, {}),
         CellAt(1, 0, {A(0, Unknown, 2)}, {}) >>,
      << CellAt(0, 0, {A(0, Unknown, 1), A(0, Unknown, 2)}, {}) >>,
      << CellAt(0, 0, {}, {}),
         CellAt(1, 0, {A(1, Unknown, 1)}, {4}),
         CellAt(0, 1, {A(0, Unknown, 1), A(1, Unknown, 2)}, {}) >>,
      << CellAt(-1, 0, {A(2, Unknown, 1)}, {}),
         CellAt(0, 3, {A(1, Unknown, 1)}, {}),
         CellAt(-2, -2, {A(0, Unknown, 3)}, {}) >>,
      << CellAt(0, 0, {A(2, Male, 1), A(1, Unknown, 1)}, {}) >>,
      << CellAt(1, 0, {A(1, Female, 1)}, {4}),
         CellAt(3, 0, {A(1, Unknown, 2)}, {}) >> }

\* The sight the scene gives a helper standing at pos.
Place(scene, pos) ==
    [i \in DOMAIN scene |->
        [x |-> CellOf(pos)[1] + scene[i].dx, y |-> CellOf(pos)[2] + scene[i].dy,
         animals |-> scene[i].animals, helpers |-> scene[i].helpers]]

\* What other helpers can have delivered to the ark since the last visit.
Deliveries == { {}, {A(0, Female, 5)}, {A(0, Female, 5), A(0, Male, 5)} }

\* The chase cell kept on arrival.
ClearedOnArrival_never(cell, pos) == cell

\* check_surroundings lines 164-167: the chase cell is dropped once the helper
\* stands in it.
ClearedOnArrival(cell, pos) == IF cell # None /\ CellOf(pos) = cell THEN None ELSE cell

\* The switch out of specialization testing twice the threshold.
SwitchesOut_late(sees_ark, specialized, elapsed) ==
    sees_ark /\ specialized /\ elapsed > 2 * SPECIALIZATION_END

\* check_surroundings line 136, inside the block entered when the ark is in view.
SwitchesOut(sees_ark, specialized, elapsed) ==
    sees_ark /\ specialized /\ elapsed > SPECIALIZATION_END

(***************************************************************************)
(* Player5.check_surroundings on the snapshot the host builds.             *)
(***************************************************************************)
check_surroundings ==
    /\ phase = "perceive"
    /\ \E delivered \in Deliveries, rnd \in RandomTurns :
        LET snap_position == HostPosition
            seen == CellOf(snap_position) = CellOf(ark_pos)     \* ark_view is not None
            snap_raining == rain_at # None /\ now >= rain_at[1]
            ark_now == IF seen THEN ark_animals \cup HostFlock \cup delivered
                       ELSE ark_animals
            snap_flock == IF seen THEN {} ELSE HostFlock
            u == update_obtained_species_from_ark(ark_now, obtained_species,
                                                  base_angle, rnd)
            helper_sees == kind # Noah /\ seen
            obtained1 == IF helper_sees THEN u.obtained ELSE obtained_species
            reverts == SwitchesOut(helper_sees, is_specialized, now)
            replenishes == helper_sees /\ is_specialized /\ ~reverts
            s == update_to_search_list(is_specialized, specialization_target_species,
                                       species_stats, obtained1, id)
        IN  /\ (~seen => delivered = {} /\ rnd = 0)
            /\ position' = snap_position
            /\ sight' = world
            /\ rain_start_time' =
                   IF snap_raining /\ ~is_raining THEN << now >> ELSE rain_start_time
            /\ is_raining' = snap_raining
            /\ time_elapsed' = now
            /\ at_ark' = seen
            /\ flock' = snap_flock
            /\ ark_animals' = ark_now
            /\ obtained_species' =
                   IF kind # Noah THEN obtained1 \cup KnownKeys(snap_flock)
                   ELSE obtained_species
            /\ is_exploring_fan_out' =
                   IF helper_sees THEN u.fan_out ELSE is_exploring_fan_out
            /\ base_angle' = IF helper_sees THEN u.angle ELSE base_angle
            /\ is_specialized' = IF reverts THEN FALSE ELSE is_specialized
            /\ specialization_limit' = IF reverts THEN 0 ELSE specialization_limit
            /\ specialization_target_species' =
                   IF reverts THEN << >>
                   ELSE IF replenishes THEN s.targets
                   ELSE specialization_target_species
            /\ to_search_list' =
                   IF reverts THEN << >>
                   ELSE IF replenishes THEN s.search
                   ELSE to_search_list
            /\ previous_position' = snap_position
            /\ animal_target_cell' = ClearedOnArrival(animal_target_cell, snap_position)
    /\ now' = now + 1
    /\ came_from' = position
    /\ phase' = "decide"
    /\ UNCHANGED << params, ignore_list, current_target_pos, action, rung, turn, probe,
                    world, rain_at, walked >>

\* One perception update within the window of turns an episode is followed for.
CheckSurroundings == turn < MaxTurns /\ check_surroundings

\* The draw handed to get_action: only the random rungs read it.
NoDraw == [hit |-> FALSE, angle |-> 0, jx |-> 0, jy |-> 0]

UsesDraw(out) ==
    out.rung \in {"fan_out_switch", "fan_out_exhausted", "random", "random_exhausted"}

(***************************************************************************)
(* Player5.get_action, one call.                                           *)
(***************************************************************************)
GetAction ==
    /\ phase = "decide"
    /\ \E dup \in (IF FlockDuplicates = {} THEN {NoAnimal} ELSE FlockDuplicates),
          order \in Orders(CurrentCellAnimals) :
        LET plain == get_action(dup, order, NoDraw)
        IN  \E draw \in (IF UsesDraw(plain)
                         THEN {d \in Draws : DrawPossible(position, previous_position,
                                                 ark_pos, SAFE_RADIUS_FROM_ARK, d)}
                         ELSE {NoDraw}) :
                LET out == get_action(dup, order, draw)
                IN  /\ action' = out.action
                    /\ rung' = out.rung
                    /\ animal_target_cell' = out.animal_target_cell
                    /\ current_target_pos' = out.current_target_pos
                    /\ ignore_list' = out.ignore_list
                    /\ is_exploring_fan_out' = out.is_exploring_fan_out
                    /\ walked' = order
    /\ phase' = "perceive"
    /\ turn' = turn + 1
    /\ UNCHANGED << params, position, sight, flock, at_ark, is_raining, rain_start_time,
                    time_elapsed, obtained_species, previous_position, base_angle,
                    is_specialized, specialization_limit, specialization_target_species,
                    to_search_list, now, ark_animals, world, rain_at, came_from, probe >>

(***************************************************************************)
(* Player5.__init__, and the states an episode window can start from.      *)
(***************************************************************************)
\* The bearing dividing the circle by the fleet size instead of the fleet size less one.
InitialAngle_over_fleet(hid, nh) == IF hid > 0 THEN (360 * (hid - 1)) \div nh ELSE 0

\* base_angle = 2 pi (id - 1) / (num_helpers - 1), in degrees.
InitialAngle(hid, nh) == IF hid > 0 THEN (360 * (hid - 1)) \div (nh - 1) ELSE 0

NoProbe == [fn |-> "none", args |-> << >>, result |-> << >>, done |-> FALSE]

ArkPos == << 100 * Unit, 100 * Unit >>

\* Where a window can start: at the ark, near it, at medium and far distance, at
\* the map's edge, on the safe radius, and beyond it.
StartPositions ==
    { ArkPos, << 1035, 1005 >>, << 4005, 1005 >>, << 8005, 1005 >>,
      << 9985, 1005 >>, << 7000, 9000 >>, << 9005, 9005 >> }

\* Places by the edges of the map, where a spiral waypoint or a fan-out step would
\* leave it.
EdgePositions == { << 1005, 9005 >>, << 9005, 1005 >>, << 9985, 1005 >>, << 1005, 5 >> }

\* When a window can start, and the turn the host starts the rain (None: not
\* within the window): [now, rain_at].
TimeCases ==
    { [now |-> 0, rain_at |-> None],
      [now |-> 249, rain_at |-> None],
      [now |-> 1000, rain_at |-> None],
      [now |-> 600, rain_at |-> << 600 >>],
      [now |-> 600, rain_at |-> << 601 >>],
      [now |-> 1200, rain_at |-> << 1100 >>],
      [now |-> 1200, rain_at |-> << 500 >>],
      [now |-> 1200, rain_at |-> << 203 >>] }

Carried == << A(2, Male, 9), A(2, Female, 9), A(1, Female, 9), A(1, Male, 9),
              A(0, Female, 9) >>

\* The flocks a window can start with: the first k carried animals, and flocks with
\* animals whose gender the snapshot leaves Unknown (check_surroundings line 158
\* provides for them), two of which can share a key.
StartFlocks ==
    {{Carried[i] : i \in 1..k} : k \in {0, 3, 4, 5}}
        \cup { {A(1, Unknown, 8), A(1, Unknown, 9), A(2, Male, 9)},
               {Carried[1], Carried[2], Carried[3], A(0, Unknown, 9)} }

\* The species-population mappings, in insertion order.
Stats(k) ==
    IF k = 1 THEN << << 2, 10 >>, << 1, 6 >>, << 3, 4 >> >>
    ELSE IF k = 3 THEN << << 1, 6 >>, << 2, 3 >> >>
    ELSE << << 1, 5 >>, << 2, 3 >>, << 3, 4 >> >>

Member(i, k, s, n) == [id |-> i, kind |-> k, stats |-> s, nh |-> n]

\* [id, kind, stats, nh]: who the helper is, the species it is told about and the
\* size of its fleet.
Crew ==
    { Member(0, Noah, 1, 5), Member(1, Helper, 1, 5), Member(2, Helper, 1, 5),
      Member(3, Helper, 1, 5), Member(3, Helper, 2, 5) }

\* Other fleets and mappings for the two helpers that are never specialized.
MoreCrew ==
    { Member(1, Helper, 2, 3), Member(2, Helper, 1, 3), Member(2, Helper, 2, 13),
      Member(1, Helper, 1, 7), Member(2, Helper, 1, 4) }

\* The windows the model follows: every place and time with nothing carried and
\* little in sight, and every flock and scene at two places and two times.
StartCases ==
    [who : Crew, pos : StartPositions, tc : TimeCases, fl : { {} },
     scene : { << >>, << CellAt(0, 0, {}, {}) >> }]
    \cup
    [who : Crew, pos : { << 1035, 1005 >>, << 7000, 9000 >>, << 9005, 9005 >> },
     tc : { [now |-> 0, rain_at |-> None], [now |-> 1200, rain_at |-> << 1100 >>],
            [now |-> 1200, rain_at |-> << 203 >>] },
     fl : StartFlocks, scene : Scenes]
    \cup
    [who : MoreCrew, pos : { ArkPos, << 1035, 1005 >> },
     tc : { [now |-> 0, rain_at |-> None], [now |-> 1000, rain_at |-> None] },
     fl : { {} }, scene : { << CellAt(0, 0, {A(0, Unknown, 1), A(1, Male, 1)}, {}) >> }]
    \cup
    [who : { Member(3, Helper, 3, 5), Member(4, Helper, 1, 5) }, pos : { ArkPos },
     tc : { [now |-> 0, rain_at |-> None], [now |-> 1000, rain_at |-> None] },
     fl : { {} }, scene : { << >> }]
    \cup
    [who : { Member(3, Helper, 1, 5) }, pos : { << 1035, 1005 >> },
     tc : { [now |-> 0, rain_at |-> None] }, fl : { {A(0, Female, 9)} },
     scene : { << CellAt(0, 0, {A(0, Male, 1), A(1, Unknown, 1)}, {}) >> }]
    \cup
    [who : { Member(1, Helper, 1, 5) }, pos : { << 1035, 1005 >> },
     tc : { [now |-> 249, rain_at |-> None] },
     fl : { {A(1, Unknown, 8), A(1, Unknown, 9), A(2, Male, 9)} },
     scene : { << CellAt(0, 0, {A(0, Male, 1), A(1, Unknown, 1)}, {}) >> }]
    \cup
    [who : { Member(1, Helper, 1, 5) }, pos : { << 4005, 1005 >> },
     tc : { [now |-> 1200, rain_at |-> << 1100 >>] }, fl : { {} },
     scene : { << CellAt(20, 0, {A(0, Unknown, 1)}, {}) >> }]
    \cup
    [who : { Member(1, Helper, 1, 5) }, pos : { << 1045, 1005 >> },
     tc : { [now |-> 998, rain_at |-> << 0 >>], [now |-> 998, rain_at |-> << 500 >>] },
     fl : { {} }, scene : { << >> }]
    \cup
    [who : { Member(1, Helper, 1, 5), Member(2, Helper, 1, 5) }, pos : EdgePositions,
     tc : { [now |-> 0, rain_at |-> None], [now |-> 1200, rain_at |-> << 1100 >>] },
     fl : { {}, {Carried[i] : i \in 1..3} }, scene : { << >> }]

\* The fields after Player5.__init__ for start case c, with the window's start.
Constructed(c) ==
        LET stats == Stats(c.who.stats)
            sp == assign_specialization(c.who.id, c.who.nh, stats)
            sl == update_to_search_list(sp.is_specialized, sp.targets, stats, {},
                                        c.who.id)
            rained == c.tc.rain_at # None /\ c.tc.rain_at[1] < c.tc.now
        IN  /\ id = c.who.id /\ kind = c.who.kind /\ num_helpers = c.who.nh
            /\ species_stats = stats /\ ark_pos = ArkPos
            /\ position = c.pos /\ sight = << >> /\ flock = c.fl /\ at_ark = FALSE
            /\ is_raining = rained
            /\ rain_start_time = (IF rained THEN c.tc.rain_at ELSE None)
            /\ time_elapsed = 0 /\ now = c.tc.now
            /\ obtained_species = (IF c.who.kind = Noah THEN {} ELSE KnownKeys(c.fl))
            /\ ignore_list = << >>
            /\ animal_target_cell = None /\ current_target_pos = None
            /\ previous_position = c.pos
            /\ base_angle = InitialAngle(c.who.id, c.who.nh)
            /\ is_exploring_fan_out = TRUE
            /\ is_specialized = sp.is_specialized
            /\ specialization_limit = sp.limit
            /\ specialization_target_species = sl.targets
            /\ to_search_list = sl.search
            /\ action = NoAction /\ rung = "none"
            /\ ark_animals = {} /\ world = Place(c.scene, c.pos) /\ rain_at = c.tc.rain_at
            /\ came_from = c.pos /\ walked = << >>
            /\ turn = 0

Init == phase = "perceive" /\ probe = NoProbe /\ \E c \in StartCases : Constructed(c)

Next == CheckSurroundings \/ GetAction

Spec == Init /\ [][Next]_vars

(***************************************************************************)
(* Function specification: the pure functions applied to inputs drawn from *)
(* bounded sets; probe holds the last application.                         *)
(***************************************************************************)
\* The largest fleet the partition is computed for.
MaxFleet == 14

IgnoreLists == { << >>, << 0 >>, << 1 >>, << 0, 1 >>, << 1, 0 >> }

SearchLists ==
    { << >>, << << 0, Male >> >>, << << 0, Male >>, << 0, Female >> >>,
      << << 1, Female >> >>, << << 1, Male >>, << 0, Female >> >> }

ObtainedSets == SUBSET ({0, 1} \X {Male, Female})

\* The applications to make: [fn, args], not yet done.
GroupProbes ==
    { [fn |-> "determine_helper_group", args |-> << hid, nh >>, result |-> << >>,
       done |-> FALSE] : hid \in 1..MaxFleet, nh \in 2..MaxFleet }

NeededProbes ==
    { [fn |-> "is_species_needed", args |-> << sid, g, ign, spz, sl, ob >>,
       result |-> << >>, done |-> FALSE] :
          sid \in {0, 1}, g \in Gender, ign \in IgnoreLists, spz \in BOOLEAN,
          sl \in SearchLists, ob \in ObtainedSets }

\* The farthest target of a probed step, per axis, in fixed-point units.
MaxReach == 14

StepOrigins == { << 5, 5 >>, << 5005, 5005 >> }

StepProbes ==
    { [fn |-> "get_move_to_target", args |-> << p, << p[1] + dx, p[2] + dy >> >>,
       result |-> << >>, done |-> FALSE] :
          p \in StepOrigins, dx \in -MaxReach..MaxReach, dy \in -MaxReach..MaxReach }
    \cup
    { [fn |-> "get_move_to_target", args |-> << p, q >>, result |-> << >>,
       done |-> FALSE] :
          p \in StepOrigins, q \in { << 0, 9990 >>, << 9990, 0 >>, << 1234, 4321 >> } }

\* Where the helper stands when it scans its sight.
ScanPosition == << 1035, 1005 >>

\* Cell views a sight can hold: plain ones, the helper's own cell, a cell another
\* helper stands in, and a cell beyond the safe radius.
SightCells ==
    { [x |-> 104, y |-> 100, animals |-> {A(0, Unknown, 1)}, helpers |-> {}],
      [x |-> 105, y |-> 100, animals |-> {A(1, Unknown, 1)}, helpers |-> {}],
      [x |-> 104, y |-> 101, animals |-> {A(2, Unknown, 2), A(0, Unknown, 2)}, helpers |-> {}],
      [x |-> 103, y |-> 100, animals |-> {A(0, Unknown, 3)}, helpers |-> {}],
      [x |-> 106, y |-> 100, animals |-> {A(1, Unknown, 3)}, helpers |-> {4}],
      [x |-> 990, y |-> 990, animals |-> {A(0, Unknown, 4)}, helpers |-> {}] }

Sights ==
    { << >> } \cup { << a >> : a \in SightCells }
        \cup { << a, b >> : a \in SightCells, b \in SightCells }
        \cup { << a, b, c >> : a \in SightCells, b \in SightCells,
                               c \in { e \in SightCells : e.x = 105 } }

FindProbes ==
    { [fn |-> "find_needed_animal_in_sight", args |-> << st, spz, sl, ign, ob >>,
       result |-> << >>, done |-> FALSE] :
          st \in Sights, spz \in BOOLEAN, sl \in SearchLists,
          ign \in { << >>, << 0 >>, << 1 >> },
          ob \in { {}, {<< 0, Male >>}, {<< 0, Male >>, << 0, Female >>},
                   {<< 1, Female >>}, {<< 1, Male >>, << 1, Female >>} } }

FnInit ==
    /\ phase = "probe"
    /\ \/ probe \in {p \in GroupProbes : p.args[1] <= p.args[2]}
       \/ probe \in NeededProbes
       \/ probe \in StepProbes
       \/ probe \in FindProbes
    /\ Constructed([who |-> Member(1, Helper, 1, 5), pos |-> ArkPos,
                    tc |-> [now |-> 0, rain_at |-> None], fl |-> {}, scene |-> << >>])

\* determine_helper_group(helper_id, num_helpers), with the group sizes it computes.
ProbeGroup ==
    /\ phase = "probe" /\ ~probe.done /\ probe.fn = "determine_helper_group"
    /\ probe' = [probe EXCEPT
                   !.result = << determine_helper_group(probe.args[1], probe.args[2]),
                                 group_sizes_of(probe.args[2]) >>,
                   !.done = TRUE]
    /\ UNCHANGED << params, fields, action, rung, host, phase, turn >>

\* is_species_needed(species_id, gender, ignore_list, is_specialized, to_search_list,
\* obtained_species).
ProbeNeeded ==
    /\ phase = "probe" /\ ~probe.done /\ probe.fn = "is_species_needed"
    /\ probe' = [probe EXCEPT
                   !.result = is_species_needed(probe.args[1], probe.args[2],
                                  probe.args[3], probe.args[4], probe.args[5],
                                  probe.args[6]),
                   !.done = TRUE]
    /\ UNCHANGED << params, fields, action, rung, host, phase, turn >>

\* get_move_to_target(current_pos, target_pos): the destination of the Move.
ProbeStep ==
    /\ phase = "probe" /\ ~probe.done /\ probe.fn = "get_move_to_target"
    /\ probe' = [probe EXCEPT
                   !.result = LET mv == get_move_to_target(probe.args[1], probe.args[2])
                              IN  << mv.kind, mv.x, mv.y >>,
                   !.done = TRUE]
    /\ UNCHANGED << params, fields, action, rung, host, phase, turn >>

\* find_needed_animal_in_sight(sight, is_specialized, to_search_list,
\* is_species_needed_func, position, ark_pos, safe_radius): the index in sight of
\* the cell returned, 0 for None.
ProbeFind ==
    /\ phase = "probe" /\ ~probe.done /\ probe.fn = "find_needed_animal_in_sight"
    /\ probe' = [probe EXCEPT
                   !.result = find_needed_animal_in_sight(probe.args[1], probe.args[2],
                                  probe.args[3], probe.args[4], probe.args[5],
                                  ScanPosition, ArkPos, SAFE_RADIUS_FROM_ARK),
                   !.done = TRUE]
    /\ UNCHANGED << params, fields, action, rung, host, phase, turn >>

FnNext == ProbeGroup \/ ProbeNeeded \/ ProbeStep \/ ProbeFind

FnSpec == FnInit /\ [][FnNext]_vars

(***************************************************************************)
(* Properties.                                                             *)
(***************************************************************************)
\* get_action has returned for the helper's current position.
Decided == phase = "perceive" /\ turn > 0 /\ kind = Helper

\* act is a Move of at most one maximal step along the straight line from the
\* current position to the ark (to within the fixed-point resolution), landing on
\* the ark when it is within one step.
DirectStepToArk(act) ==
    LET dx == ark_pos[1] - position[1]
        dy == ark_pos[2] - position[2]
        sx == act.x - position[1]
        sy == act.y - position[2]
        d2 == get_distance2(position, ark_pos)
    IN  /\ act.kind = "Move"
        /\ IF d2 <= Km2(MAX_DISTANCE_KM) THEN << act.x, act.y >> = ark_pos
           ELSE /\ sx * sx + sy * sy <= Km2(MAX_DISTANCE_KM)
                /\ get_distance2(<< act.x, act.y >>, ark_pos) < d2
                /\ Abs(sx * dy - sy * dx) <= Abs(dx) + Abs(dy)

BeyondSafeRadius == get_distance2(position, ark_pos) > Km2(SAFE_RADIUS_FROM_ARK)

\* C1: beyond the safe radius a helper's action is a direct step toward the ark,
\* whatever it carries, sees or has cached, and no chase cell stays cached.
C1_EmergencyReturn ==
    (Decided /\ BeyondSafeRadius) => (DirectStepToArk(action) /\ animal_target_cell = None)

C1_Witness ==
    /\ Decided /\ BeyondSafeRadius /\ is_raining
    /\ Cardinality(flock) = MAX_FLOCK_SIZE /\ CurrentCellAnimals # {}

\* C2: with the rain clock active and fewer than 3 turns of buffer between the
\* turns remaining and the turns needed to reach the ark, the action is a direct
\* step toward the ark, never a Release, an Obtain, a chase or an exploration move.
C2_UrgentReturn ==
    (Decided /\ is_raining /\ rain_start_time # None /\ time_buffer < 3)
        => (DirectStepToArk(action) /\ rung \in {"emergency", "urgency"})

C2_Witness ==
    /\ Decided /\ is_raining /\ time_buffer < 3 /\ ~BeyondSafeRadius
    /\ FlockDuplicates # {} /\ CurrentCellAnimals # {}

AtCapacity == Cardinality(flock) >= MAX_FLOCK_SIZE

\* C3 as stated: at capacity the action is always a return Move toward the ark.
C3_FullFlockAlwaysReturns ==
    (Decided /\ AtCapacity) => DirectStepToArk(action)

\* C3, amended: at capacity the action is never a capture, and it is a direct step
\* toward the ark whenever the flock holds no two animals of one key.
C3_FullFlockReturnsUnlessDuplicate ==
    (Decided /\ AtCapacity)
        => /\ action.kind # "Obtain"
           /\ FlockDuplicates = {} => DirectStepToArk(action)

C3_Witness ==
    /\ Decided /\ AtCapacity /\ FlockDuplicates = {} /\ ~BeyondSafeRadius /\ ~is_raining
    /\ \E a \in CurrentCellAnimals :
          a \notin flock /\ is_species_needed(a.sp, a.g, ignore_list, is_specialized,
                                              to_search_list, obtained_species)

\* Some call of get_action can complete from this state: for some iteration order
\* the ladder ends without the random source, or the source has a possible draw.
CanDecide ==
    \E dup \in (IF FlockDuplicates = {} THEN {NoAnimal} ELSE FlockDuplicates),
       order \in Orders(CurrentCellAnimals) :
        UsesDraw(get_action(dup, order, NoDraw))
            => \E d \in Draws : DrawPossible(position, previous_position, ark_pos,
                                             SAFE_RADIUS_FROM_ARK, d)

\* C4: every get_action call of a helper returns exactly one action, a Move, an
\* Obtain or a Release, and a helper that is to decide can always do so.
C4_AlwaysAnAction ==
    /\ Decided => action.kind \in {"Move", "Obtain", "Release"}
    /\ (phase = "decide" /\ kind = Helper) => CanDecide

C4_Witness ==
    Decided /\ rung = "random_exhausted" /\ CurrentCellIndex = 0 /\ action.kind = "Move"

\* C5: the flock never exceeds the capacity, and Obtain is never returned with the
\* flock at capacity.
C5_FlockWithinCapacity ==
    /\ Cardinality(flock) <= MAX_FLOCK_SIZE
    /\ (Decided /\ action.kind = "Obtain") => Cardinality(flock) < MAX_FLOCK_SIZE

C5_Witness ==
    phase = "decide" /\ action.kind = "Obtain" /\ action.animal \in flock
        /\ Cardinality(flock) = MAX_FLOCK_SIZE

\* C6: after a Release, the flock without the released animal holds at most one
\* animal with the released animal's (species, gender) key.
C6_ReleaseLeavesNoDuplicate ==
    (Decided /\ action.kind = "Release")
        => /\ action.animal \in flock
           /\ Cardinality({b \in flock \ {action.animal} : Key(b) = Key(action.animal)}) <= 1

C6_Witness ==
    /\ Decided /\ action.kind = "Release"
    /\ \E b \in flock \ {action.animal} : Key(b) = Key(action.animal)

SumSeq(q) == q[1] + q[2] + q[3] + q[4]

\* C7 as stated: every specialized ordinal (helper ids 3 and up) maps to one of the
\* four tiers, and the four computed group sizes sum to N = num_helpers - 2.
C7_PartitionSumsToFleet ==
    (probe.fn = "determine_helper_group" /\ probe.done /\ probe.args[1] >= 3)
        => /\ probe.result[1] \in {1000, 2000, 3000, 4000}
           /\ SumSeq(probe.result[2]) = probe.args[2] - 2

\* C8: helpers 1 and 2 are never specialized, at construction or later.
C8_FirstTwoAreGeneralists ==
    (kind = Helper /\ id \in {1, 2}) => ~is_specialized

C8_Witness ==
    /\ kind = Helper /\ id \in {1, 2} /\ ~is_specialized /\ turn > 0
    /\ RareItems(species_stats) # << >>
    /\ determine_helper_group(id + 2, num_helpers + 2) # 0

C10_TargetCellValid ==
    (Decided /\ rung = "acquire") =>
        \E i \in DOMAIN sight :
            /\ << sight[i].x, sight[i].y >> = animal_target_cell
            /\ animal_target_cell # CellOf(position)
            /\ sight[i].helpers = {}
            /\ get_distance2(CellCenter(sight[i].x, sight[i].y), ark_pos)
                   <= Km2(SAFE_RADIUS_FROM_ARK)
            /\ \E a \in sight[i].animals :
                   is_species_needed(a.sp, Unknown, ignore_list, is_specialized,
                                     to_search_list, obtained_species)

C10_Witness ==
    /\ Decided /\ rung = "acquire"
    /\ \E i \in DOMAIN sight : sight[i].helpers # {} /\ sight[i].animals # {}

ReturnRungs ==
    { "emergency", "urgency", "full", "loaded", "rain_close", "rain_medium",
      "rain_far", "rain_medium_abandon", "chase_abandon", "resume_unsafe" }

InsideMap(pt) ==
    /\ 0 <= pt[1] /\ pt[1] <= 999 * Unit
    /\ 0 <= pt[2] /\ pt[2] <= 999 * Unit

\* C12: the waypoint and the Move destination of every return move, direct or
\* spiral, and the destination of every fan-out step lie within the map.
C12_ReturnAndFanOutInsideMap ==
    (Decided /\ rung \in ReturnRungs \cup {"fan_out"}) =>
        /\ action.kind = "Move" /\ InsideMap(<< action.x, action.y >>)
        /\ current_target_pos # None /\ InsideMap(current_target_pos)

C12_Witness ==
    /\ Decided /\ rung = "loaded" /\ action.kind = "Move"
    /\ current_target_pos[1] = 0 /\ position[1] > 0

\* Some sampled candidate is valid (inside the safe radius and the map) and makes a
\* turn angle outside [160, 200] degrees with the movement from `from`.
ForwardCandidateExists ==
    \E a \in SampledAngles :
        LET t == RandomTargetAt(position, a)
        IN  /\ get_distance2(t, ark_pos) <= Km2(SAFE_RADIUS_FROM_ARK)
            /\ InsideMap(t)
            /\ ~InBacktrackBand(position[1] - came_from[1], position[2] - came_from[2],
                                t[1] - position[1], t[2] - position[2])

\* C13 as stated: after a turn in which the helper moved, a target accepted by the
\* randomized search never makes a turn angle in [160, 200] degrees with that
\* movement, as long as a valid candidate outside the band exists.
C13_NoBacktrackTarget ==
    (Decided /\ rung \in {"random", "fan_out_switch"} /\ came_from # position
        /\ ForwardCandidateExists)
        => ~InBacktrackBand(position[1] - came_from[1], position[2] - came_from[2],
                            current_target_pos[1] - position[1],
                            current_target_pos[2] - position[2])

NoRepeats(seq) == \A i, j \in DOMAIN seq : seq[i] = seq[j] => i = j

\* C14: the search list holds no (species, gender) pair twice and the ignore list
\* holds no species id twice.
C14_ListsWithoutRepeats ==
    NoRepeats(to_search_list) /\ NoRepeats(ignore_list)

C14_Witness ==
    /\ Decided /\ Len(ignore_list) >= 2 /\ Len(to_search_list) >= 2
    /\ \E a \in flock : a.g = Unknown /\ InSeq(a.sp, ignore_list)

\* C15: a specialized helper has a non-empty list of target species, after
\* construction, after every reassignment and after the late-game revert.
C15_SpecializedHasTargets ==
    is_specialized => specialization_target_species # << >>

\* The helper is specialized, has seen the ark with both genders of its only
\* target, and no other species is left to be reassigned to.
C15_Witness ==
    /\ is_specialized /\ turn > 0 /\ at_ark
    /\ \A i \in DOMAIN specialization_target_species :
          Complete(species_stats, obtained_species, specialization_target_species[i])
    /\ to_search_list = << >>

\* C16: with a duplicate in the flock, the action is a direct step to the ark when
\* the emergency or the rain urgency applies; otherwise it is the Release of a flock
\* animal whose key occurs more than once, with its species put on the ignore list,
\* also when the flock is at capacity or a needed animal stands in the current cell.
C16_DuplicateReleaseRung ==
    (Decided /\ FlockDuplicates # {})
        => IF BeyondSafeRadius \/ (is_raining /\ RainUrgent)
           THEN DirectStepToArk(action)
           ELSE /\ action.kind = "Release"
                /\ action.animal \in FlockDuplicates
                /\ InSeq(action.animal.sp, ignore_list)

\* A duplicate is released with the flock at capacity.
C16_Witness ==
    /\ Decided /\ FlockDuplicates # {} /\ ~BeyondSafeRadius /\ ~(is_raining /\ RainUrgent)
    /\ AtCapacity /\ action.kind = "Release"

\* A duplicate is released although a needed animal stands in the current cell.
C16_ReleaseBeforeCapture ==
    /\ Decided /\ FlockDuplicates # {} /\ action.kind = "Release"
    /\ \E a \in CurrentCellAnimals :
          a \notin flock /\ is_species_needed(a.sp, a.g, << >>, is_specialized,
                                              to_search_list, obtained_species)

\* The urgency overrides the release.
C16_UrgencyBeforeRelease ==
    /\ Decided /\ FlockDuplicates # {} /\ ~BeyondSafeRadius /\ is_raining /\ RainUrgent
    /\ action.kind = "Move"

\* Animal a passes the tests of the capture loop, the ignore list being the one the
\* loop has built.
Capturable(a) ==
    /\ a \in CurrentCellAnimals
    /\ a \notin flock
    /\ ~InSeq(a.sp, ignore_list)
    /\ is_species_needed(a.sp, a.g, ignore_list, is_specialized, to_search_list,
                         obtained_species)
    /\ a.g # Unknown => Key(a) \notin obtained_species

\* C17: Obtain is returned only for an animal of the current cell that is not in the
\* flock, whose species is not ignored, that is needed, and whose known-gender key is
\* not obtained; it is the first such animal in the cell's iteration order, and the
\* cached chase cell is cleared.
C17_ObtainFirstCapturable ==
    (Decided /\ action.kind = "Obtain")
        => /\ Capturable(action.animal)
           /\ \E k \in DOMAIN walked :
                 /\ walked[k] = action.animal
                 /\ \A j \in 1..(k - 1) : ~Capturable(walked[j])
           /\ animal_target_cell = None

\* The second animal of the cell is captured, the first having been passed over.
C17_Witness ==
    /\ Decided /\ action.kind = "Obtain"
    /\ Len(walked) >= 2 /\ walked[1] # action.animal /\ walked[1] \notin flock

\* get_action is about to run with a chase cell cached whose centre is within the
\* safe radius, and no rung above the chase applies.
ChaseStands ==
    /\ phase = "decide" /\ kind = Helper
    /\ animal_target_cell # None
    /\ is_within_safe_radius(CellCenter(animal_target_cell[1], animal_target_cell[2]),
                             ark_pos, SAFE_RADIUS_FROM_ARK)
    /\ ~BeyondSafeRadius /\ ~(is_raining /\ RainUrgent)
    /\ FlockDuplicates = {} /\ ~AtCapacity

\* The step continues the chase: a Move toward the centre of the cached cell, the
\* cell kept.
ChaseContinues ==
    /\ action' = get_move_to_target(position,
                     CellCenter(animal_target_cell[1], animal_target_cell[2]))
    /\ animal_target_cell' = animal_target_cell

\* C18 as stated: with a chase cell cached and no higher rung producing an action
\* (no capture included), the chase continues.
C18_ChaseAlwaysContinues ==
    [][(ChaseStands /\ action'.kind # "Obtain") => ChaseContinues]_vars

\* C18, amended: the chase continues when moreover the current cell's view is
\* missing or holds no animal.
C18_ChaseContinuesFromEmptyCell ==
    [][(ChaseStands /\ action'.kind # "Obtain" /\ CurrentCellAnimals = {})
          => ChaseContinues]_vars

\* A chase step has been taken toward a cell cached on an earlier turn.
C18_Witness ==
    /\ Decided /\ rung = "chase" /\ turn >= 2 /\ animal_target_cell # None
    /\ CurrentCellAnimals = {} /\ ~AtCapacity /\ FlockDuplicates = {}

\* The fan-out step from the current position would leave the map or the safe radius.
FanOutStepViolates ==
    LET v == Polar(base_angle % 360, MAX_DISTANCE_KM * Unit)
        to == << position[1] + v[1], position[2] + v[2] >>
    IN  \/ ~is_within_map_bounds(to[1], to[2])
        \/ ~is_within_safe_radius(to, ark_pos, SAFE_RADIUS_FROM_ARK)

FanOutSwitchRungs == {"fan_out_switch", "fan_out_exhausted"}

\* C19 as stated: once the fan-out flag is false it never becomes true again, and
\* only a get_action call whose fan-out step would leave the map or the safe radius
\* switches it off.
C19_FanOutIsPermanent ==
    [][/\ ~is_exploring_fan_out => ~is_exploring_fan_out'
       /\ (is_exploring_fan_out /\ ~is_exploring_fan_out')
             => (phase = "decide" /\ FanOutStepViolates)]_vars

\* C19, amended: get_action never switches the flag on, and switches it off exactly
\* when it reaches the fan-out rung and the step would leave the map or the safe
\* radius; a perception update that shows the ark sets the flag to whether the ark
\* holds an animal of known gender, and any other perception update leaves it alone.
C19_FanOutFollowsArkAndBounds ==
    [][/\ (phase = "decide" /\ phase' = "perceive")
             => /\ is_exploring_fan_out' => is_exploring_fan_out
                /\ (is_exploring_fan_out /\ ~is_exploring_fan_out')
                      <=> (is_exploring_fan_out /\ rung' \in FanOutSwitchRungs)
                /\ rung' \in FanOutSwitchRungs => FanOutStepViolates
                /\ rung' = "fan_out" => ~FanOutStepViolates
       /\ (phase = "perceive" /\ phase' = "decide")
             => is_exploring_fan_out' =
                   IF kind # Noah /\ at_ark' THEN KnownKeys(ark_animals') # {}
                   ELSE is_exploring_fan_out]_vars

\* The flag was switched off by a violating fan-out step.
C19_Witness ==
    /\ Decided /\ rung \in FanOutSwitchRungs /\ ~is_exploring_fan_out /\ FanOutStepViolates

\* The flag is on again after an ark visit, the helper having left fan-out before.
C19_FanOutRestarted ==
    /\ phase = "decide" /\ turn >= 1 /\ at_ark /\ is_exploring_fan_out
    /\ rung \in {"random", "random_exhausted", "resume"}

\* b is 2 pi (hid - 1) / (nh - 1) in whole degrees.
IsBearingOf(b, hid, nh) ==
    b * (nh - 1) <= 360 * (hid - 1) /\ 360 * (hid - 1) < (b + 1) * (nh - 1)

\* The bearings __init__ gives helpers 1..nh-1 are pairwise distinct, and neighbouring
\* ones, the last and the first included, lie one share of the circle apart (to
\* within the whole degree).
BearingsDivideCircle(nh) ==
    LET b(i) == IF i = nh THEN 360 ELSE InitialAngle(i, nh)
    IN  /\ \A i, j \in 1..(nh - 1) : i # j => b(i) # b(j)
        /\ \A i \in 1..(nh - 1) :
              /\ (b(i + 1) - b(i)) * (nh - 1) <= 360
              /\ 360 < (b(i + 1) - b(i) + 2) * (nh - 1)

\* C20 as stated: a helper's bearing is 2 pi (id - 1) / (num_helpers - 1) for the
\* whole episode, and the bearings of helpers 1..num_helpers-1 are distinct and
\* divide the circle evenly.
C20_BearingIsFixed ==
    kind = Helper => /\ IsBearingOf(base_angle, id, num_helpers)
                     /\ BearingsDivideCircle(num_helpers)

\* C20, amended: the bearing is 2 pi (id - 1) / (num_helpers - 1) at construction,
\* with the bearings of the fleet distinct and dividing the circle evenly; every
\* action leaves it unchanged, and so does every perception update except one that
\* shows the ark holding an animal of known gender, which advances it by a random
\* amount modulo the full circle.
C20_BearingChangesOnlyAtStockedArk ==
    /\ kind = Helper => /\ IsBearingOf(base_angle, id, num_helpers)
                        /\ BearingsDivideCircle(num_helpers)
    /\ [][IF phase = "perceive" /\ phase' = "decide" /\ kind # Noah /\ at_ark'
             /\ KnownKeys(ark_animals') # {}
          THEN \E rnd \in RandomTurns : base_angle' = (base_angle + rnd) % 360
          ELSE base_angle' = base_angle]_vars

\* A helper with a bearing other than 0 has kept it through perception updates and
\* actions, one of the updates showing the ark.
C20_Witness ==
    /\ Decided /\ turn >= 2 /\ id >= 2 /\ at_ark
    /\ base_angle # 0 /\ IsBearingOf(base_angle, id, num_helpers)

\* The entries of species_stats with population >= 6 lacking a gender in `obtained`.
RareLacking(obtained) ==
    {i \in DOMAIN species_stats :
        /\ species_stats[i][2] >= 6
        /\ ~Complete(species_stats, obtained, species_stats[i][1])}

\* The genders of the species named `name` missing from `obtained`, Male first.
MissingGenders(name, obtained) ==
    LET sid == species_to_id(species_stats, name)
    IN  SelectSeq(<< << sid, Male >>, << sid, Female >> >>, LAMBDA k : k \notin obtained)

\* After the step the target list is the single rarest species still lacking a
\* gender, and the search list its missing genders.
ReassignedToRarest ==
    \E i \in RareLacking(obtained_species') :
        /\ \A j \in RareLacking(obtained_species') : species_stats[i][2] <= species_stats[j][2]
        /\ specialization_target_species' = << species_stats[i][1] >>
        /\ to_search_list' = MissingGenders(species_stats[i][1], obtained_species')

\* A perception update of a helper that stays specialized, all of whose targets are
\* complete in the updated obtained set while a rare species still lacks a gender.
TargetsExhausted ==
    /\ phase = "perceive" /\ phase' = "decide" /\ is_specialized /\ is_specialized'
    /\ \A k \in DOMAIN specialization_target_species :
          Complete(species_stats, obtained_species', specialization_target_species[k])
    /\ RareLacking(obtained_species') # {}

\* C21 as stated: after every perception update of a specialized helper whose targets
\* are all complete while a rare species lacks a gender, the target list is the
\* rarest such species and the search list its missing genders.
C21_ReassignedAtEveryUpdate ==
    [][TargetsExhausted => ReassignedToRarest]_vars

\* C21, amended: the same, for the perception updates in which the ark is in view.
C21_ReassignedAtArk ==
    [][(TargetsExhausted /\ at_ark') => ReassignedToRarest]_vars

\* Helper 3 saw at the ark both genders of its first target and now hunts the other
\* rare species.
C21_Witness ==
    /\ phase = "decide" /\ at_ark /\ is_specialized /\ id = 3
    /\ specialization_target_species = << 2 >>
    /\ Complete(species_stats, obtained_species, 1)
    /\ to_search_list = << << 1, Male >>, << 1, Female >> >>

\* assign_specialization made the helper a specialist.
SpecializedAtConstruction ==
    assign_specialization(id, num_helpers, species_stats).is_specialized

IsGeneralistWithEmptyLists ==
    ~is_specialized /\ specialization_target_species = << >> /\ to_search_list = << >>

\* C22 as stated: past turn 1000 a helper specialized at construction is, after the
\* perception update, a generalist with empty target and search lists, the ark in
\* view or not; and a generalist never becomes specialized again.
C22_RevertsEverywhere ==
    /\ []((phase = "decide" /\ kind = Helper /\ SpecializedAtConstruction
              /\ time_elapsed > SPECIALIZATION_END) => IsGeneralistWithEmptyLists)
    /\ [][~is_specialized => ~is_specialized']_vars

\* C22, amended: the same for the perception updates in which the ark is in view.
C22_RevertsAtArk ==
    /\ []((phase = "decide" /\ kind = Helper /\ SpecializedAtConstruction
              /\ time_elapsed > SPECIALIZATION_END /\ at_ark) => IsGeneralistWithEmptyLists)
    /\ [][~is_specialized => ~is_specialized']_vars

\* A helper specialized at construction has seen the ark after turn 1000.
C22_Witness ==
    /\ phase = "decide" /\ kind = Helper /\ SpecializedAtConstruction
    /\ time_elapsed > SPECIALIZATION_END /\ at_ark /\ IsGeneralistWithEmptyLists

\* Species sp is put on the ignore list by the get_action call of this step: it is
\* the species of the animal released, or of an animal of the current cell whose
\* known-gender key is already obtained.
IgnoredByThisCall(sp) ==
    \/ action'.kind = "Release" /\ action'.animal.sp = sp
    \/ \E a \in CurrentCellAnimals :
          a.sp = sp /\ a.g # Unknown /\ Key(a) \in obtained_species

\* C23: a get_action call at an elapsed turn count that is a positive multiple of
\* 250 leaves on the ignore list only what the call itself puts there; every other
\* step keeps every entry of the list.
C23_IgnoreListClearedEvery250 ==
    [][IF phase = "decide" /\ phase' = "perceive"
          /\ time_elapsed > 0 /\ time_elapsed % 250 = 0
       THEN \A i \in DOMAIN ignore_list' : IgnoredByThisCall(ignore_list'[i])
       ELSE /\ Len(ignore_list') >= Len(ignore_list)
            /\ \A i \in DOMAIN ignore_list : ignore_list'[i] = ignore_list[i]]_vars

\* At turn 250 an animal of species 1 is captured, the turn after a duplicate of
\* that species was released and the species put on the ignore list (the flock of
\* two is what the release left of the flock of three).
C23_Witness ==
    /\ Decided /\ time_elapsed = 250 /\ turn = 2
    /\ flock = {A(1, Unknown, 9), A(2, Male, 9)} \/ flock = {A(1, Unknown, 8), A(2, Male, 9)}
    /\ action.kind = "Obtain" /\ action.animal.sp = 1 /\ ignore_list = << >>

\* The tiers of _handle_rain_movement.
CloseTier == get_distance2(position, ark_pos) < Km2(200) /\ time_buffer > 200

MediumTier ==
    ~CloseTier /\ get_distance2(position, ark_pos) < Km2(500) /\ time_buffer > 100

\* A get_action step of a helper under a rain clock that is not critical, with no
\* rung above the chase producing the action.
RainDeliberation ==
    /\ phase = "decide" /\ phase' = "perceive" /\ kind = Helper
    /\ is_raining /\ ~NoDeadline /\ time_buffer >= 3
    /\ ~BeyondSafeRadius /\ FlockDuplicates = {} /\ ~AtCapacity
    /\ action'.kind # "Obtain"

SpiralReturn == action' = get_return_move(position, ark_pos, id, FALSE).move

DirectReturn == action' = get_return_move(position, ark_pos, id, TRUE).move

\* The cached chase cell is at least 15 km away.
DistantChase ==
    /\ animal_target_cell # None
    /\ get_distance2(position, CellCenter(animal_target_cell[1], animal_target_cell[2]))
          >= Km2(15)

\* C24: under a rain clock that is not critical, a helper in the medium tier drops a
\* chase cell at least 15 km away and makes a spiral-return move, makes a
\* spiral-return move when it has no chase cell and finds none, and makes a
\* direct-return move when it is far or the buffer is low.
C24_RainTiers ==
    [][RainDeliberation
          => /\ (MediumTier /\ DistantChase) => (SpiralReturn /\ animal_target_cell' = None)
             /\ (MediumTier /\ animal_target_cell = None /\ rung' # "acquire")
                   => SpiralReturn
             /\ (~CloseTier /\ ~MediumTier /\ animal_target_cell = None
                   /\ rung' # "acquire") => DirectReturn]_vars

\* The branch of _handle_rain_movement that drops a distant chase cell never returns
\* the action.
RainAbandonNeverTaken == rung # "rain_medium_abandon"

\* What holds of the tiers when no chase cell is cached and none is acquired.
RainTiersWithoutChase ==
    [][(RainDeliberation /\ animal_target_cell = None /\ rung' # "acquire")
          => /\ MediumTier => SpiralReturn
             /\ (~CloseTier /\ ~MediumTier) => DirectReturn]_vars

\* C25 as stated: under the rain clock the turns remaining are the deadline constant
\* less the elapsed turns, whenever the rain started, and a buffer below 3 computed
\* from them forces the direct return.
C25_RemainingFromElapsed ==
    (Decided /\ is_raining /\ rain_start_time # None)
        => /\ turns_remaining_until_end = START_RAIN - time_elapsed
           /\ (START_RAIN - time_elapsed) - turns_to_reach_ark < 3
                 => DirectStepToArk(action)

\* C25, amended: the turns remaining are the deadline constant less the turns elapsed
\* since the rain started; the urgency returns the direct step exactly when the
\* buffer computed from them is below 3, as with the rain started at turn 0,
\* 998 turns elapsed and 5 turns to the ark (buffer -3).
C25_RemainingFromRainStart ==
    (Decided /\ is_raining /\ rain_start_time # None)
        => LET remaining == START_RAIN - (time_elapsed - rain_start_time[1])
               buffer    == remaining - turns_to_reach_ark
           IN  /\ buffer < 3 => DirectStepToArk(action)
               /\ rung = "urgency" => buffer < 3
               /\ (time_elapsed = 998 /\ rain_start_time = << 0 >> /\ turns_to_reach_ark = 5)
                     => (buffer = -3 /\ DirectStepToArk(action))

C25_Witness ==
    /\ Decided /\ is_raining /\ time_elapsed = 998 /\ rain_start_time = << 0 >>
    /\ turns_to_reach_ark = 5 /\ rung = "urgency"

\* The cells of the probed sight that are valid targets and hold an animal of one of
\* the species `wanted`.
ValidCellsWith(wanted) ==
    {i \in DOMAIN probe.args[1] :
        /\ is_valid_target_cell(probe.args[1][i], ScanPosition, ArkPos, SAFE_RADIUS_FROM_ARK)
        /\ \E a \in probe.args[1][i].animals : a.sp \in wanted}

\* The species the probed helper still needs, as the scan asks (gender not known).
ProbedNeeds ==
    {sp \in 0..2 : is_species_needed(sp, Unknown, probe.args[4], probe.args[2],
                                     probe.args[3], probe.args[5])}

\* The first species of the probed search list that is still needed, as a set.
ProbedPriority ==
    LET sl == probe.args[3]
        at == {i \in DOMAIN sl : sl[i][1] \in ProbedNeeds}
    IN  IF at = {} THEN {} ELSE {sl[CHOOSE i \in at : \A j \in at : i <= j][1]}

\* C26: for a specialized helper with a non-empty search list,
\* find_needed_animal_in_sight returns a valid cell holding the first still-needed
\* species of the search list when one is in sight, otherwise a valid cell holding
\* any needed species, and nothing only when no valid cell holds a needed species.
C26_PriorityThenAnyNeeded ==
    (probe.done /\ probe.fn = "find_needed_animal_in_sight"
        /\ probe.args[2] /\ probe.args[3] # << >>)
        => /\ ValidCellsWith(ProbedPriority) # {}
                 => probe.result \in ValidCellsWith(ProbedPriority)
           /\ ValidCellsWith(ProbedPriority) = {}
                 => (probe.result = 0 \/ probe.result \in ValidCellsWith(ProbedNeeds))
           /\ probe.result = 0 <=> ValidCellsWith(ProbedNeeds) = {}

\* The priority species stands in the second cell of the sight, a cell with another
\* needed species in the first, and the second cell is returned.
C26_Witness ==
    /\ probe.done /\ probe.fn = "find_needed_animal_in_sight"
    /\ probe.args[2] /\ probe.args[3] # << >>
    /\ probe.result = 2 /\ 1 \in ValidCellsWith(ProbedNeeds)

\* No cell with the priority species is valid, and a cell with another needed
\* species is returned.
C26_FallBack ==
    /\ probe.done /\ probe.fn = "find_needed_animal_in_sight"
    /\ probe.args[2] /\ probe.args[3] # << >>
    /\ ProbedPriority # {} /\ ValidCellsWith(ProbedPriority) = {} /\ probe.result # 0

\* Every animal of known gender in `animals` has its key in the obtained set.
AllObtained(animals) ==
    \A a \in animals : a.g # Unknown => << a.sp, a.g >> \in obtained_species

\* C27: the obtained set never loses an element, and after each perception update of
\* a helper other than Noah it holds the key of every known-gender animal of the
\* flock and, when the ark is in view, of the ark's inventory.
C27_ObtainedGrowsAndCoversFlockAndArk ==
    /\ []((phase = "decide" /\ kind # Noah)
             => (AllObtained(flock) /\ (at_ark => AllObtained(ark_animals))))
    /\ [][obtained_species \subseteq obtained_species']_vars

\* A helper that carried animals stands at the ark, which holds what it unloaded
\* and what another helper delivered.
C27_Witness ==
    /\ phase = "decide" /\ kind = Helper /\ at_ark /\ turn >= 1
    /\ \E a, b \in ark_animals : a.g # Unknown /\ b.g # Unknown /\ a.n # b.n
    /\ AllObtained(ark_animals)

\* A helper away from the ark carries an animal of known gender it captured.
C27_FlockObtained ==
    /\ phase = "decide" /\ kind = Helper /\ ~at_ark /\ turn >= 1
    /\ action.kind = "Obtain" /\ action.animal.g # Unknown /\ action.animal \in flock

\* C28: when get_action starts, a cached chase cell is never the cell the helper
\* stands in, and its centre is within the safe radius of the ark.
C28_ChaseCellAheadAndSafe ==
    (phase = "decide" /\ animal_target_cell # None)
        => /\ animal_target_cell # CellOf(position)
           /\ is_within_safe_radius(CellCenter(animal_target_cell[1], animal_target_cell[2]),
                                    ark_pos, SAFE_RADIUS_FROM_ARK)

\* get_action starts with a chase cell cached on an earlier turn.
C28_Witness ==
    /\ phase = "decide" /\ turn >= 1 /\ animal_target_cell # None
    /\ rung \in {"acquire", "chase"}

\* The helper has stepped into the cell it chased and the perception update dropped
\* the cell.
C28_ArrivedAndCleared ==
    /\ phase = "decide" /\ turn >= 1 /\ animal_target_cell = None /\ rung = "acquire"
    /\ action.kind = "Move" /\ CellOf(position) # CellOf(came_from)
    /\ CurrentCellAnimals # {}

(***************************************************************************)
(* The rain, followed from the turn it starts to the turn the clock runs   *)
(* out.  The starts lie on the bearing (3, 4) / 5 from the ark, where a    *)
(* 1 km step toward the ark is a whole number of position units.           *)
(***************************************************************************)
OnBearing(km) == << ArkPos[1] + 6 * km, ArkPos[2] + 8 * km >>

\* The turn the host starts the rain on.
RainTurn == 1500

RainStarts ==
    [who : { Member(1, Helper, 1, 5), Member(3, Helper, 1, 5) },
     pos : { OnBearing(km) : km \in {996, 997, 998, 999} },
     tc : { [now |-> RainTurn, rain_at |-> << RainTurn >>] },
     fl : { {}, {A(2, Male, 9)} },
     scene : { << >>, << CellAt(0, 0, {A(0, Male, 1), A(1, Unknown, 1)}, {}) >> }]
    \cup
    [who : { Member(1, Helper, 1, 5) },
     pos : { OnBearing(km) : km \in {990, 996, 997, 998, 999} },
     tc : { [now |-> RainTurn, rain_at |-> << RainTurn >>] },
     fl : { {} },
     scene : { << CellAt(0, 0, {A(0, Unknown, 1)}, {}),
                  CellAt(1, 0, {A(1, Unknown, 1)}, {}) >> }]

RainInit == phase = "perceive" /\ probe = NoProbe /\ \E c \in RainStarts : Constructed(c)

\* The host hands out snapshots until the one on which no turn remains.
RainLasts == rain_at # None /\ now <= rain_at[1] + START_RAIN

RainCheckSurroundings == RainLasts /\ check_surroundings

RainNext == RainCheckSurroundings \/ GetAction

RainSpec == RainInit /\ [][RainNext]_vars

\* The rain clock has run out on this snapshot.
RainOver == phase = "decide" /\ ~NoDeadline /\ turns_remaining_until_end <= 0

\* C29: a helper that is within the safe radius with at least one turn to spare when
\* the rain clock starts, and whose every Move the host applies, stands at the ark
\* position by the turn on which no turn remains, whatever animals are in sight.
C29_AtArkWhenRainEnds == RainOver => position = ark_pos

\* The clock has run out on a helper that started the rain with animals in its cell
\* and took one before it turned back.
C29_Witness ==
    /\ RainOver /\ position = ark_pos
    /\ \E a \in ark_animals : a.n = 1

\* The clock has run out on a helper that left its bearing for an animal one cell
\* further from the ark and brought both animals in.
C29_DetourWitness ==
    /\ RainOver /\ position = ark_pos
    /\ {A(0, Unknown, 1), A(1, Unknown, 1)} \subseteq ark_animals

\* The turns the helper has to spare once the host has applied the action returned.
BufferAfterAction ==
    LET d2 == get_distance2(HostPosition, ark_pos)
        per == MAX_DISTANCE_KM * Unit
    IN  (turns_remaining_until_end - 1) - ((CeilSqrt(d2) + per - 1) \div per)

\* No action taken with three or more turns to spare leaves fewer than one.
C29_DetourKeepsBuffer ==
    [][(phase = "decide" /\ kind # Noah /\ ~NoDeadline /\ is_raining /\ time_buffer >= 3
        /\ is_within_safe_radius(position, ark_pos, SAFE_RADIUS_FROM_ARK))
           => BufferAfterAction' >= 1]_vars

\* A helper with turns to spare under rain has stepped away from the ark.
C29_Detour ==
    /\ phase = "perceive" /\ turn >= 1 /\ is_raining /\ ~NoDeadline /\ time_buffer >= 3
    /\ action.kind = "Move"
    /\ get_distance2(HostPosition, ark_pos) > get_distance2(position, ark_pos)

====
